---------------------------- MODULE Spec2Model ----------------------------
(***************************************************************************)
(* A model of the HDFS object-store adapter (package object, hdfsclient)   *)
(* of juicefs: key <-> path mapping, Head, Get, Put, Delete, List and      *)
(* ListAll, over a model of the remote file system the adapter talks to;   *)
(* and the file-handle table of libjfs, the bridge to the Java SDK.        *)
(*                                                                         *)
(* Strings are sequences of byte values, so that concatenation, prefix     *)
(* tests and Go's byte-wise string comparison are the real ones.           *)
(***************************************************************************)
EXTENDS Integers, Sequences, FiniteSets, TLC

VARIABLES
    fs,        \* the remote name space: canonical path -> node
    basePath,  \* hdfsclient.basePath
    ident,     \* the superuser and supergroup names in force (package variables)
    put,       \* put[p]: the Put call process p is running
    get,       \* the Get call in flight
    ev,        \* the last Delete, as an event record
    hist,      \* history: what the checks need to remember of the run
    lst,       \* the List calls of a paging client
    la,        \* the ListAll call: producer, channel, consumer
    openFiles, \* libjfs: the handle table, fd -> fwrapper
    nextHandle,\* libjfs: where nextFileHandle starts its search
    callers,   \* libjfs: callers[t], the call thread t is in
    closes     \* libjfs: closes[f], the calls of Close made on file f

\* the state of the handle table of libjfs
bridge == <<openFiles, nextHandle, callers, closes>>

vars == <<fs, basePath, ident, put, get, ev, hist, lst, la, bridge>>

\* the handle table in a specification that does not use it
BridgeOff == openFiles = <<>> /\ nextHandle = 1 /\ callers = <<>> /\ closes = <<>>

-----------------------------------------------------------------------------
(* Bytes and strings *)

SL == 47
DOT == 46
DIGIT0 == 48

dirSuffix == <<SL>>
Empty == <<>>

Min(a, b) == IF a <= b THEN a ELSE b

\* a prefix test that compares lengths only
HasPrefixByLength(s, p) == Len(p) <= Len(s)

\* strings.HasPrefix
HasPrefix(s, p) == Len(p) <= Len(s) /\ SubSeq(s, 1, Len(p)) = p

\* strings.HasSuffix
HasSuffix(s, x) == Len(x) <= Len(s) /\ SubSeq(s, Len(s) - Len(x) + 1, Len(s)) = x

\* strings.TrimSuffix
TrimSuffix(s, x) == IF HasSuffix(s, x) THEN SubSeq(s, 1, Len(s) - Len(x)) ELSE s

\* Go's s < t on strings: byte-wise lexicographic order
StrLess(s, t) ==
    \E i \in 1..Len(t) :
        /\ i - 1 <= Len(s)
        /\ SubSeq(s, 1, i - 1) = SubSeq(t, 1, i - 1)
        /\ (i > Len(s) \/ s[i] < t[i])

\* Go's s <= t on strings
StrLeq(s, t) == s = t \/ StrLess(s, t)

\* s[n:], defined only for n <= len(s) (Go panics otherwise)
SliceFrom(s, n) == SubSeq(s, n + 1, Len(s))

\* the index of the last "/" of s, 0 when there is none
LastSlash(s) ==
    LET I == {i \in 1..Len(s) : s[i] = SL}
    IN  IF I = {} THEN 0 ELSE CHOOSE i \in I : \A j \in I : j <= i

RECURSIVE Clean(_)
\* filepath.Clean on a path none of whose elements is "." or "..":
\* repeated separators collapse, a trailing separator goes, "" becomes "."
Clean(p) ==
    IF p = Empty THEN <<DOT>>
    ELSE IF \E i \in 1..(Len(p) - 1) : p[i] = SL /\ p[i + 1] = SL
    THEN LET i == CHOOSE i \in 1..(Len(p) - 1) : p[i] = SL /\ p[i + 1] = SL
         IN  Clean(SubSeq(p, 1, i) \o SubSeq(p, i + 2, Len(p)))
    ELSE IF Len(p) > 1 /\ p[Len(p)] = SL THEN SubSeq(p, 1, Len(p) - 1)
    ELSE p

\* filepath.Dir
Dir(p) == Clean(SubSeq(p, 1, LastSlash(p)))

RECURSIVE Base(_)
\* filepath.Base
Base(p) ==
    IF p = Empty THEN <<DOT>>
    ELSE IF p[Len(p)] = SL
    THEN (IF Len(p) = 1 THEN <<SL>> ELSE Base(SubSeq(p, 1, Len(p) - 1)))
    ELSE SliceFrom(p, LastSlash(p))

\* filepath.Join of two elements (filepath.ToSlash is the identity on Unix)
Join(a, b) ==
    IF a = Empty /\ b = Empty THEN Empty
    ELSE IF a = Empty THEN Clean(b)
    ELSE IF b = Empty THEN Clean(a)
    ELSE Clean(a \o <<SL>> \o b)

RECURSIVE Itoa(_)
\* the %d verb on a non-negative integer
Itoa(n) == IF n < 10 THEN <<DIGIT0 + n>> ELSE Itoa(n \div 10) \o <<DIGIT0 + (n % 10)>>

RECURSIVE SortStrings(_)
\* sort.Strings on names that are pairwise distinct
SortStrings(S) ==
    IF S = {} THEN <<>>
    ELSE LET m == CHOOSE x \in S : \A y \in S : StrLeq(x, y)
         IN  <<m>> \o SortStrings(S \ {m})

-----------------------------------------------------------------------------
(* The remote file system (github.com/colinmarc/hdfs/v2 against a name     *)
(* node), as the adapter sees it.  A node is a directory or a file; a file *)
(* being written carries its writer (the lease holder), 0 once closed.     *)

\* permission bits as the set of their positions: 0755
Perm0755 == {0, 2, 3, 5, 6, 7, 8}

\* the remote's sticky bit, 01000, and Go's os.ModeSticky, 1 << 20
HdfsStickyBit == 9
ModeStickyBit == 20
ModeDirBit == 31

DirNode == [dir |-> TRUE, data |-> <<>>, writer |-> 0,
            owner |-> "hdfs", group |-> "supergroup", perm |-> Perm0755]

FileNode(data, w) == [dir |-> FALSE, data |-> data, writer |-> w,
                      owner |-> "hdfs", group |-> "supergroup", perm |-> Perm0755]

\* the name node resolves a path by its elements: "//" and "/a/" name "/" and "/a"
RPath(p) == Clean(p)

Exists(f, p) == RPath(p) \in DOMAIN f

IsDirAt(f, p) == Exists(f, p) /\ f[RPath(p)].dir

\* the direct children of the directory at canonical path d
Children(f, d) == {q \in DOMAIN f : q # d /\ Dir(q) = d}

\* hdfs.FileInfo: Name, Size, IsDir, Owner, OwnerGroup, Mode
FileInfo(name, n) ==
    [name |-> name, size |-> Len(n.data), isDir |-> n.dir,
     owner |-> n.owner, group |-> n.group,
     mode |-> n.perm \cup (IF n.dir THEN {ModeDirBit} ELSE {})]

NilInfo == [name |-> Empty, size |-> 0, isDir |-> FALSE,
            owner |-> "", group |-> "", mode |-> {}]

\* a Stat that answers a missing path with another error
StatOtherError(f, p) ==
    IF Exists(f, p) THEN [err |-> "nil", info |-> FileInfo(Base(p), f[RPath(p)])]
    ELSE [err |-> "other", info |-> NilInfo]

\* Client.Stat and Client.Open: both are one getFileInfo on the name node
Stat(f, p) ==
    IF Exists(f, p) THEN [err |-> "nil", info |-> FileInfo(Base(p), f[RPath(p)])]
    ELSE [err |-> "notexist", info |-> NilInfo]

Open(f, p) == Stat(f, p)

\* a Readdir that answers with everything below the directory, each name
\* the path from the directory down
ReaddirDeep(f, p) ==
    IF ~IsDirAt(f, p) THEN [err |-> "other", infos |-> {}]
    ELSE [err |-> "nil",
          infos |-> {FileInfo(SliceFrom(q, Len(TrimSuffix(RPath(p), <<SL>>)) + 1), f[q]) :
                        q \in {x \in DOMAIN f : x # RPath(p) /\ HasPrefix(x, TrimSuffix(RPath(p), <<SL>>) \o <<SL>>)}}]

\* FileReader.Readdir(0): the infos of the children, in no promised order
Readdir(f, p) ==
    IF ~IsDirAt(f, p) THEN [err |-> "other", infos |-> {}]
    ELSE [err |-> "nil",
          infos |-> {FileInfo(Base(q), f[q]) : q \in Children(f, RPath(p))}]

\* no error taken for a missing file
IsNotExistNever(err) == FALSE

\* every error taken for a missing file
IsNotExistAlways(err) == TRUE

\* os.IsNotExist
IsNotExist(err) == err = "notexist"

\* Client.CreateFile: create, never overwrite, never create the parent
CreateFile(f, p, w) ==
    IF Exists(f, p)
    THEN [err |-> IF f[RPath(p)].writer # 0 THEN "abc" ELSE "exist", fs |-> f]
    ELSE IF ~Exists(f, Dir(p)) THEN [err |-> "notexist", fs |-> f]
    ELSE IF ~IsDirAt(f, Dir(p)) THEN [err |-> "other", fs |-> f]
    ELSE [err |-> "nil", fs |-> (RPath(p) :> FileNode(<<>>, w)) @@ f]

\* the file writer w holds open, wherever it has been renamed to
OpenFileOf(f, w) == {q \in DOMAIN f : ~f[q].dir /\ f[q].writer = w}

\* a Write that replaces what the file holds
WriteFileOverwrite(f, w, chunk) ==
    IF OpenFileOf(f, w) = {} THEN [err |-> "other", fs |-> f]
    ELSE LET q == CHOOSE q \in OpenFileOf(f, w) : TRUE
         IN  [err |-> "nil", fs |-> [f EXCEPT ![q].data = chunk]]

\* FileWriter.Write of one chunk
WriteFile(f, w, chunk) ==
    IF OpenFileOf(f, w) = {} THEN [err |-> "other", fs |-> f]
    ELSE LET q == CHOOSE q \in OpenFileOf(f, w) : TRUE
         IN  [err |-> "nil", fs |-> [f EXCEPT ![q].data = @ \o chunk]]

\* FileWriter.Close
CloseFile(f, w) ==
    IF OpenFileOf(f, w) = {} THEN [err |-> "other", fs |-> f]
    ELSE LET q == CHOOSE q \in OpenFileOf(f, w) : TRUE
         IN  [err |-> "nil", fs |-> [f EXCEPT ![q].writer = 0]]

\* the name space without the node at canonical path q
Without(f, q) == [x \in DOMAIN f \ {q} |-> f[x]]

\* Client.Remove: not recursive
Remove(f, p) ==
    IF ~Exists(f, p) THEN [err |-> "notexist", fs |-> f]
    ELSE IF Children(f, RPath(p)) # {} \/ RPath(p) = <<SL>> THEN [err |-> "other", fs |-> f]
    ELSE [err |-> "nil", fs |-> Without(f, RPath(p))]

\* a rename that refuses a destination that exists
RenameNoReplace(f, old, new) ==
    IF ~Exists(f, old) THEN [err |-> "notexist", fs |-> f]
    ELSE IF ~IsDirAt(f, Dir(new)) \/ Exists(f, new) THEN [err |-> "other", fs |-> f]
    ELSE [err |-> "nil",
          fs |-> (RPath(new) :> f[RPath(old)]) @@ Without(f, RPath(old))]

\* a rename that keeps a destination that exists and drops the source
RenameFirstWins(f, old, new) ==
    IF ~Exists(f, old) THEN [err |-> "notexist", fs |-> f]
    ELSE IF ~IsDirAt(f, Dir(new)) THEN [err |-> "other", fs |-> f]
    ELSE IF Exists(f, new) /\ f[RPath(new)].dir # f[RPath(old)].dir
    THEN [err |-> "other", fs |-> f]
    ELSE IF Exists(f, new) THEN [err |-> "nil", fs |-> Without(f, RPath(old))]
    ELSE [err |-> "nil",
          fs |-> (RPath(new) :> f[RPath(old)]) @@ Without(f, RPath(old))]

\* Client.Rename of a file: one atomic step that replaces the destination
Rename(f, old, new) ==
    IF ~Exists(f, old) THEN [err |-> "notexist", fs |-> f]
    ELSE IF ~IsDirAt(f, Dir(new)) THEN [err |-> "other", fs |-> f]
    ELSE IF Exists(f, new) /\ f[RPath(new)].dir # f[RPath(old)].dir
    THEN [err |-> "other", fs |-> f]
    ELSE [err |-> "nil",
          fs |-> (RPath(new) :> f[RPath(old)]) @@ Without(f, RPath(old))]

\* Client.Chown
ClientChown(f, p, owner, group) ==
    IF ~Exists(f, p) THEN [err |-> "notexist", fs |-> f]
    ELSE [err |-> "nil",
          fs |-> [f EXCEPT ![RPath(p)].owner = owner, ![RPath(p)].group = group]]

RECURSIVE Ancestors(_)
\* a canonical path and the directories above it, the root left out
Ancestors(q) == IF q = <<SL>> THEN {} ELSE {q} \cup Ancestors(Dir(q))

\* a MkdirAll that refuses a directory that exists
MkdirAllExclusive(f, p) ==
    LET need == Ancestors(RPath(p))
    IN  IF Exists(f, p) THEN [err |-> "exist", fs |-> f]
        ELSE IF \E q \in need : q \in DOMAIN f /\ ~f[q].dir THEN [err |-> "other", fs |-> f]
        ELSE [err |-> "nil",
              fs |-> [q \in DOMAIN f \cup need |-> IF q \in DOMAIN f THEN f[q] ELSE DirNode]]

\* Client.MkdirAll
MkdirAll(f, p) ==
    LET need == Ancestors(RPath(p))
    IN  IF \E q \in need : q \in DOMAIN f /\ ~f[q].dir THEN [err |-> "other", fs |-> f]
        ELSE [err |-> "nil",
              fs |-> [q \in DOMAIN f \cup need |-> IF q \in DOMAIN f THEN f[q] ELSE DirNode]]

-----------------------------------------------------------------------------
(* The adapter: path mapping, entries, Head, List *)

superuser == "hdfs"
supergroup == "supergroup"

\* the names in force unless the environment sets others
DefaultIdent == [superuser |-> superuser, supergroup |-> supergroup]

\* hdfsclient.path
path(bp, key) == bp \o key

\* toFile appending "/" to every directory key, one ending in "/" too
toFileAlwaysSlash(key, info) ==
    [key   |-> IF info.isDir THEN key \o <<SL>> ELSE key,
     size  |-> IF info.isDir THEN 0 ELSE info.size,
     isDir |-> info.isDir,
     owner |-> IF info.owner = ident.superuser THEN "root" ELSE info.owner,
     group |-> IF info.group = ident.supergroup THEN "root" ELSE info.group,
     mode  |-> IF HdfsStickyBit \in info.mode
               THEN (info.mode \ {HdfsStickyBit}) \cup {ModeStickyBit}
               ELSE info.mode]

\* toFile reporting the remote owner and group as they are
toFileRawIdentity(key, info) ==
    [key   |-> IF info.isDir /\ ~HasSuffix(key, <<SL>>) /\ key # Empty
               THEN key \o <<SL>> ELSE key,
     size  |-> IF info.isDir THEN 0 ELSE info.size,
     isDir |-> info.isDir,
     owner |-> info.owner,
     group |-> info.group,
     mode  |-> IF HdfsStickyBit \in info.mode
               THEN (info.mode \ {HdfsStickyBit}) \cup {ModeStickyBit}
               ELSE info.mode]

\* toFile setting os.ModeSticky and leaving the remote's bit in place
toFileKeepsRemoteSticky(key, info) ==
    [key   |-> IF info.isDir /\ ~HasSuffix(key, <<SL>>) /\ key # Empty
               THEN key \o <<SL>> ELSE key,
     size  |-> IF info.isDir THEN 0 ELSE info.size,
     isDir |-> info.isDir,
     owner |-> IF info.owner = ident.superuser THEN "root" ELSE info.owner,
     group |-> IF info.group = ident.supergroup THEN "root" ELSE info.group,
     mode  |-> IF HdfsStickyBit \in info.mode
               THEN info.mode \cup {ModeStickyBit}
               ELSE info.mode]


\* hdfsclient.toFile
toFile(key, info) ==
    [key   |-> IF info.isDir /\ ~HasSuffix(key, <<SL>>) /\ key # Empty
               THEN key \o <<SL>> ELSE key,
     size  |-> IF info.isDir THEN 0 ELSE info.size,
     isDir |-> info.isDir,
     owner |-> IF info.owner = ident.superuser THEN "root" ELSE info.owner,
     group |-> IF info.group = ident.supergroup THEN "root" ELSE info.group,
     mode  |-> IF HdfsStickyBit \in info.mode
               THEN (info.mode \ {HdfsStickyBit}) \cup {ModeStickyBit}
               ELSE info.mode]

NilObj == [key |-> Empty, size |-> 0, isDir |-> FALSE,
           owner |-> "", group |-> "", mode |-> {}]

\* hdfsclient.Head
HeadKey(f, bp, key) ==
    LET st == Stat(f, path(bp, key))
    IN  IF st.err # "nil" THEN [err |-> st.err, obj |-> NilObj]
        ELSE [err |-> "nil", obj |-> toFile(key, st.info)]

\* sorting under the bare name, a directory's too
SortNameBare(info) == info.name

\* the name List sorts an entry under: directories carry a trailing "/"
SortName(info) == IF info.isDir THEN info.name \o <<SL>> ELSE info.name

RECURSIVE ListLoop(_, _, _, _, _, _, _, _)
\* the loop of List over the sorted names, from objs, until limit is reached
ListLoop(names, infos, dir, bp, prefix, marker, limit, objs) ==
    IF names = <<>> THEN objs
    ELSE LET name == names[1]
             p    == dir \o name
             rest == Tail(names)
         IN  IF ~HasPrefix(p, bp)
             THEN ListLoop(rest, infos, dir, bp, prefix, marker, limit, objs)
             ELSE LET key == SliceFrom(p, Len(bp))
                  IN  IF ~HasPrefix(key, prefix) \/ (marker # Empty /\ StrLeq(key, marker))
                      THEN ListLoop(rest, infos, dir, bp, prefix, marker, limit, objs)
                      ELSE LET info  == CHOOSE i \in infos : SortName(i) = name
                               objs2 == Append(objs, toFile(key, info))
                           IN  IF Len(objs2) >= limit THEN objs2
                               ELSE ListLoop(rest, infos, dir, bp, prefix, marker, limit, objs2)

\* taking the empty delimiter for "/" as well
HierarchicalOrEmpty(delimiter) == delimiter \in {<<SL>>, Empty}

\* the one delimiter List supports
Hierarchical(delimiter) == delimiter = <<SL>>

\* a remote answer, or the fault put in its place
Faulted(fault, answer) == IF fault = "nil" THEN answer.err ELSE fault

\* hdfsclient.List, the remote answering the Stat of Head, the Open and the
\* Readdir with the faults fh, fo and fr ("nil": with what the store holds)
ListFaulted(f, bp, prefix, marker, delimiter, limit, fh, fo, fr) ==
    IF ~Hierarchical(delimiter) THEN [objs |-> <<>>, err |-> "notsupported"]
    ELSE LET dir0   == path(bp, prefix)
             slash  == HasSuffix(dir0, <<SL>>)
             dir    == IF ~slash THEN Dir(dir0) \o dirSuffix ELSE dir0
             self   == slash /\ marker = Empty
             head   == IF fh = "nil" THEN HeadKey(f, bp, prefix)
                       ELSE [err |-> fh, obj |-> NilObj]
         IN  IF self /\ head.err # "nil"
             THEN [objs |-> <<>>, err |-> IF IsNotExist(head.err) THEN "nil" ELSE head.err]
             ELSE LET objs0 == IF self THEN <<head.obj>> ELSE <<>>
                      file  == IF fo = "nil" THEN Open(f, dir)
                               ELSE [err |-> fo, info |-> NilInfo]
                      rd    == IF file.err # "nil" THEN [err |-> file.err, infos |-> {}]
                               ELSE IF fr = "nil" THEN Readdir(f, dir)
                               ELSE [err |-> fr, infos |-> {}]
                  IN  IF rd.err # "nil"
                      THEN [objs |-> <<>>, err |-> IF IsNotExist(rd.err) THEN "nil" ELSE rd.err]
                      ELSE [objs |-> ListLoop(SortStrings({SortName(i) : i \in rd.infos}),
                                              rd.infos, dir, bp, prefix, marker, limit, objs0),
                            err  |-> "nil"]

\* hdfsclient.List
List(f, bp, prefix, marker, delimiter, limit) ==
    ListFaulted(f, bp, prefix, marker, delimiter, limit, "nil", "nil", "nil")

\* the remote operations one call of List issues, in order
ListCalls(f, bp, prefix, marker, delimiter) ==
    IF ~Hierarchical(delimiter) THEN <<>>
    ELSE LET dir0  == path(bp, prefix)
             slash == HasSuffix(dir0, <<SL>>)
             dir   == IF ~slash THEN Dir(dir0) \o dirSuffix ELSE dir0
             self  == slash /\ marker = Empty
             stat  == IF self THEN <<"Stat">> ELSE <<>>
         IN  IF self /\ HeadKey(f, bp, prefix).err # "nil" THEN stat
             ELSE IF Open(f, dir).err # "nil" THEN stat \o <<"Open">>
             ELSE stat \o <<"Open", "Readdir">>

-----------------------------------------------------------------------------
(* Base paths, and the value of each part of the state in a specification  *)
(* that does not use it.                                                   *)

RootBase == <<SL>>
NestedBase == <<SL, 114, SL>>
Bases == {RootBase, NestedBase}

PutOff == <<>>
GetOff == [state |-> "off"]
EvNone == [op |-> "none"]
HistOff == [state |-> "off"]
LaOff == [state |-> "off"]
LstOff == [state |-> "off"]

-----------------------------------------------------------------------------
(* Put, Get and Delete on one store, called concurrently.  Every remote    *)
(* call of Put is a step of its own; a step's fault is the error the       *)
(* remote answers for an outside reason ("nil": none).                     *)

Putters == {1, 2}

\* the values rand.Int() may return
TmpIds == {1, 2}

\* the object key written and read, and the key of its directory
sK == <<100, 47, 120>>
sKDir == <<100, 47>>
\* a key next to sK, "d/y"
sKSib == <<100, 47, 121>>
sTmpInfix == <<DOT, 116, 109, 112, DOT>>

Contents == {<<1>>, <<2, 2>>}

\* writing to the key's own path
TmpNameInPlace(pth, n) == pth

\* the temp sibling of Put: Dir(path)/.<Base(path)>.tmp.<n>
TmpName(pth, n) == Join(Dir(pth), <<DOT>> \o Base(pth) \o sTmpInfix \o Itoa(n))

\* the node at a path, as a caller can observe it
Snapshot(f, p) ==
    IF Exists(f, p)
    THEN [exists |-> TRUE, dir |-> f[RPath(p)].dir, data |-> f[RPath(p)].data]
    ELSE [exists |-> FALSE, dir |-> FALSE, data |-> <<>>]

Absent == [exists |-> FALSE, dir |-> FALSE, data |-> <<>>]
Object(b) == [exists |-> TRUE, dir |-> FALSE, data |-> b]

PutIdle == [pc |-> "idle", key |-> Empty, tmp |-> Empty, in |-> <<>>, off |-> 0,
            err |-> "nil", errAt |-> "none", before |-> Absent,
            faulted |-> FALSE, overlap |-> FALSE]

GetIdle == [pc |-> "idle", off |-> 0, limit |-> 0, stream |-> <<>>, buf |-> <<>>,
            res |-> "nil", want |-> Absent]

\* the name spaces Put, Get and Delete start from
StoreInits ==
    LET root  == [q \in {<<SL>>} |-> DirNode]
        d     == (<<SL, 100>> :> DirNode) @@ root
        kPath == <<SL>> \o sK
    IN  {root, d,
         (kPath :> FileNode(<<3>>, 0)) @@ d,
         (kPath :> FileNode(<<3, 3, 3>>, 0)) @@ d,
         (kPath :> DirNode) @@ d,
         (TmpName(kPath, 1) :> FileNode(<<3>>, 0)) @@ d}

Init ==
    /\ BridgeOff
    /\ basePath = RootBase /\ ident = DefaultIdent
    /\ fs \in StoreInits
    /\ put = [p \in Putters |-> PutIdle]
    /\ get = GetIdle
    /\ ev = EvNone
    /\ hist = [cur |-> Snapshot(fs, path(basePath, sK)), collided |-> FALSE]
    /\ lst = LstOff /\ la = LaOff

\* the record of one Put for a specification that follows its remote calls:
\* its temp path, the calls it has made, what f.Close() answered
EvPut(tmp) == [op |-> "Put", tmp |-> tmp, calls |-> <<>>, errs |-> <<>>]

\* ev after the call c has answered err, where ev follows a Put
Called(c, err) ==
    IF ev.op = "Put"
    THEN [ev EXCEPT !.calls = Append(@, c), !.errs = Append(@, err)]
    ELSE ev

\* the Puts in flight other than p's
Others(p) == {q \in Putters \ {p} : put[q].pc \notin {"idle", "done"}}

\* Put up to the first CreateFile; the whole of Put on a directory key
PutStart(p, key, b, n, fault) ==
    /\ put[p].pc = "idle"
    /\ LET pth == path(basePath, key)
       IN  IF HasSuffix(pth, dirSuffix)
           THEN LET r == IF fault = "nil" THEN MkdirAll(fs, pth) ELSE [err |-> fault, fs |-> fs]
                IN  /\ fs' = r.fs
                    /\ put' = [put EXCEPT ![p] = [PutIdle EXCEPT !.pc = "done", !.key = key,
                                                     !.err = r.err, !.faulted = fault # "nil"]]
                    /\ hist' = hist
                    /\ ev' = IF ev.op = "Put"
                             THEN [EvPut(Empty) EXCEPT !.calls = <<"MkdirAll">>,
                                                       !.errs = <<r.err>>]
                             ELSE ev
           ELSE LET tmp == TmpName(pth, n)
                IN  /\ fault = "nil"
                    /\ fs' = fs
                    /\ put' = [q \in Putters |->
                                 IF q = p
                                 THEN [PutIdle EXCEPT !.pc = "create1", !.key = key, !.tmp = tmp,
                                                      !.in = b, !.before = Snapshot(fs, pth),
                                                      !.overlap = Others(p) # {}]
                                 ELSE IF q \in Others(p) THEN [put[q] EXCEPT !.overlap = TRUE]
                                 ELSE put[q]]
                    /\ hist' = [hist EXCEPT !.collided =
                                   @ \/ \E q \in Others(p) : put[q].tmp = tmp]
                    /\ ev' = IF ev.op = "Put" THEN EvPut(tmp) ELSE ev
    /\ UNCHANGED <<basePath, ident, get, lst, la, bridge>>

\* a CreateFile whose AlreadyBeingCreatedException is not taken for os.ErrExist
PutCreateAbcFatal(p, attempt, fault) ==
    /\ put[p].pc = attempt
    /\ LET r   == IF fault = "nil" THEN CreateFile(fs, put[p].tmp, p)
                  ELSE [err |-> fault, fs |-> fs]
           nxt == IF r.err = "nil" THEN "copy"
                  ELSE IF attempt = "create1" /\ r.err = "notexist" THEN "mkdir"
                  ELSE IF attempt # "create3" /\ r.err = "exist" THEN "remove"
                  ELSE "defer"
       IN  /\ fs' = r.fs
           /\ put' = [put EXCEPT ![p].pc = nxt,
                                 ![p].err = IF nxt = "defer" THEN r.err ELSE "nil",
                                 ![p].errAt = IF nxt = "defer" THEN "create" ELSE "none",
                                 ![p].faulted = @ \/ fault # "nil"]
           /\ ev' = Called("CreateFile", r.err)
    /\ UNCHANGED <<basePath, ident, get, hist, lst, la, bridge>>

\* a CreateFile that removes and retries after every attempt the temp path
\* is found taken
PutCreateRetryAgain(p, attempt, fault) ==
    /\ put[p].pc = attempt
    /\ LET r   == IF fault = "nil" THEN CreateFile(fs, put[p].tmp, p)
                  ELSE [err |-> fault, fs |-> fs]
           nxt == IF r.err = "nil" THEN "copy"
                  ELSE IF attempt = "create1" /\ r.err = "notexist" THEN "mkdir"
                  ELSE IF r.err \in {"exist", "abc"} THEN "remove"
                  ELSE "defer"
       IN  /\ fs' = r.fs
           /\ put' = [put EXCEPT ![p].pc = nxt,
                                 ![p].err = IF nxt = "defer" THEN r.err ELSE "nil",
                                 ![p].errAt = IF nxt = "defer" THEN "create" ELSE "none",
                                 ![p].faulted = @ \/ fault # "nil"]
           /\ ev' = Called("CreateFile", r.err)
    /\ UNCHANGED <<basePath, ident, get, hist, lst, la, bridge>>

\* one CreateFile(tmp) of Put and the branch taken on its answer:
\* attempt 1 is line 131, 2 the retry after MkdirAll, 3 the retry after Remove
PutCreate(p, attempt, fault) ==
    /\ put[p].pc = attempt
    /\ LET r   == IF fault = "nil" THEN CreateFile(fs, put[p].tmp, p)
                  ELSE [err |-> fault, fs |-> fs]
           nxt == IF r.err = "nil" THEN "copy"
                  ELSE IF attempt = "create1" /\ r.err = "notexist" THEN "mkdir"
                  ELSE IF attempt # "create3" /\ r.err \in {"exist", "abc"} THEN "remove"
                  ELSE "defer"
       IN  /\ fs' = r.fs
           /\ put' = [put EXCEPT ![p].pc = nxt,
                                 ![p].err = IF nxt = "defer" THEN r.err ELSE "nil",
                                 ![p].errAt = IF nxt = "defer" THEN "create" ELSE "none",
                                 ![p].faulted = @ \/ fault # "nil"]
           /\ ev' = Called("CreateFile", r.err)
    /\ UNCHANGED <<basePath, ident, get, hist, lst, la, bridge>>

PutCreate1(p, fault) == PutCreate(p, "create1", fault)
PutCreate2(p, fault) == PutCreate(p, "create2", fault)
PutCreate3(p, fault) == PutCreate(p, "create3", fault)

\* a retry with the directories left missing
PutMkdirSkipped(p, fault) ==
    /\ put[p].pc = "mkdir"
    /\ fs' = fs
    /\ put' = [put EXCEPT ![p].pc = "create2", ![p].faulted = @ \/ fault # "nil"]
    /\ ev' = Called("MkdirAll", fault)
    /\ UNCHANGED <<basePath, ident, get, hist, lst, la, bridge>>

\* MkdirAll(filepath.Dir(path)), its error dropped
PutMkdir(p, fault) ==
    /\ put[p].pc = "mkdir"
    /\ LET r == IF fault = "nil" THEN MkdirAll(fs, Dir(path(basePath, put[p].key)))
                ELSE [err |-> fault, fs |-> fs]
       IN  /\ fs' = r.fs
           /\ ev' = Called("MkdirAll", r.err)
    /\ put' = [put EXCEPT ![p].pc = "create2", ![p].faulted = @ \/ fault # "nil"]
    /\ UNCHANGED <<basePath, ident, get, hist, lst, la, bridge>>

\* Remove(tmp) of a temp file found in the way, its error dropped
PutRemoveStale(p, fault) ==
    /\ put[p].pc = "remove"
    /\ LET r == IF fault = "nil" THEN Remove(fs, put[p].tmp)
                ELSE [err |-> fault, fs |-> fs]
       IN  /\ fs' = r.fs
           /\ ev' = Called("Remove", r.err)
    /\ put' = [put EXCEPT ![p].pc = "create3", ![p].faulted = @ \/ fault # "nil"]
    /\ UNCHANGED <<basePath, ident, get, hist, lst, la, bridge>>

\* one round of io.CopyBuffer: read a chunk from in, write it to the temp
\* file; fault "read" is a failing in.Read, "other" a failing Write
PutCopy(p, fault) ==
    /\ put[p].pc = "copy"
    /\ fault = "other" => put[p].off < Len(put[p].in)
    /\ IF fault = "read"
       THEN /\ fs' = fs
            /\ put' = [put EXCEPT ![p].pc = "closeErr", ![p].err = "other",
                                  ![p].errAt = "copy", ![p].faulted = TRUE]
            /\ ev' = Called("Read", "other")
       ELSE IF put[p].off = Len(put[p].in)
       THEN /\ fs' = fs
            /\ put' = [put EXCEPT ![p].pc = "close"]
            /\ ev' = Called("Read", "eof")
       ELSE LET w == IF fault = "nil" THEN WriteFile(fs, p, <<put[p].in[put[p].off + 1]>>)
                     ELSE [err |-> fault, fs |-> fs]
            IN  /\ fs' = w.fs
                /\ put' = IF w.err = "nil" THEN [put EXCEPT ![p].off = @ + 1]
                          ELSE [put EXCEPT ![p].pc = "closeErr", ![p].err = w.err,
                                           ![p].errAt = "copy",
                                           ![p].faulted = @ \/ fault # "nil"]
                /\ ev' = IF ev.op = "Put"
                         THEN [ev EXCEPT !.calls = @ \o <<"Read", "Write">>,
                                         !.errs = @ \o <<"nil", w.err>>]
                         ELSE ev
    /\ UNCHANGED <<basePath, ident, get, hist, lst, la, bridge>>

\* f.Close() after a failed copy, its error dropped
PutCloseErr(p) ==
    /\ put[p].pc = "closeErr"
    /\ fs' = CloseFile(fs, p).fs
    /\ put' = [put EXCEPT ![p].pc = "defer"]
    /\ ev' = Called("Close", CloseFile(fs, p).err)
    /\ UNCHANGED <<basePath, ident, get, hist, lst, la, bridge>>

\* no close error taken for hdfs.ErrReplicating
IsErrReplicatingNever(err) == FALSE

\* IsErrReplicating
IsErrReplicating(err) == err = "replicating"

\* f.Close() after the copy: a replication still in progress is let pass
PutClose(p, fault) ==
    /\ put[p].pc = "close"
    /\ LET r   == CloseFile(fs, p)
           err == IF fault = "nil" THEN r.err ELSE fault
       IN  /\ fs' = IF fault = "other" THEN fs ELSE r.fs
           /\ put' = IF err # "nil" /\ ~IsErrReplicating(err)
                     THEN [put EXCEPT ![p].pc = "defer", ![p].err = err, ![p].errAt = "close",
                                      ![p].faulted = @ \/ fault # "nil"]
                     ELSE [put EXCEPT ![p].pc = "rename"]
           /\ ev' = Called("Close", err)
    /\ UNCHANGED <<basePath, ident, get, hist, lst, la, bridge>>

\* return h.c.Rename(tmp, path)
PutRename(p, fault) ==
    /\ put[p].pc = "rename"
    /\ LET r == IF fault = "nil" THEN Rename(fs, put[p].tmp, path(basePath, put[p].key))
                ELSE [err |-> fault, fs |-> fs]
       IN  /\ fs' = r.fs
           /\ put' = [put EXCEPT ![p].pc = "defer", ![p].err = r.err,
                                 ![p].errAt = IF r.err = "nil" THEN "none" ELSE "rename",
                                 ![p].faulted = @ \/ fault # "nil"]
           /\ hist' = IF r.err = "nil" THEN [hist EXCEPT !.cur = Object(put[p].in)] ELSE hist
           /\ ev' = Called("Rename", r.err)
    /\ UNCHANGED <<basePath, ident, get, lst, la, bridge>>

\* a lease nobody renews ends: the name node closes the files of writer w
ReleaseLease(f, w) ==
    [q \in DOMAIN f |-> IF f[q].writer = w THEN [f[q] EXCEPT !.writer = 0] ELSE f[q]]

\* a deferred Remove of the key's path in place of the temp file's
PutDeferRemovesKey(p, fault) ==
    /\ put[p].pc = "defer"
    /\ LET r == IF fault = "nil" THEN Remove(fs, path(basePath, put[p].key))
                ELSE [err |-> fault, fs |-> fs]
       IN  /\ fs' = ReleaseLease(r.fs, p)
           /\ ev' = Called("Remove", r.err)
    /\ put' = [put EXCEPT ![p].pc = "done", ![p].tmp = Empty, ![p].off = 0,
                          ![p].faulted = @ \/ fault # "nil"]
    /\ UNCHANGED <<basePath, ident, get, hist, lst, la, bridge>>

\* a Remove(tmp) made on the way out of a successful Put only
PutDeferOnSuccessOnly(p, fault) ==
    /\ put[p].pc = "defer"
    /\ LET r == IF put[p].err # "nil" THEN [err |-> "nil", fs |-> fs]
                ELSE IF fault = "nil" THEN Remove(fs, put[p].tmp)
                ELSE [err |-> fault, fs |-> fs]
       IN  /\ fs' = ReleaseLease(r.fs, p)
           /\ ev' = Called("Remove", r.err)
    /\ put' = [put EXCEPT ![p].pc = "done", ![p].tmp = Empty, ![p].off = 0,
                          ![p].faulted = @ \/ fault # "nil"]
    /\ UNCHANGED <<basePath, ident, get, hist, lst, la, bridge>>

\* a way out of Put that clears the whole directory of the temp file
PutDeferRemovesDir(p, fault) ==
    /\ put[p].pc = "defer"
    /\ LET d == Dir(put[p].tmp)
           r == [q \in {q \in DOMAIN fs : q # d /\ ~HasPrefix(q, d \o <<SL>>)} |-> fs[q]]
       IN  /\ fs' = ReleaseLease(IF fault = "nil" THEN r ELSE fs, p)
           /\ ev' = Called("Remove", fault)
    /\ put' = [put EXCEPT ![p].pc = "done", ![p].tmp = Empty, ![p].off = 0,
                          ![p].faulted = @ \/ fault # "nil"]
    /\ UNCHANGED <<basePath, ident, get, hist, lst, la, bridge>>


\* the deferred Remove(tmp), its error dropped, and Put's return
PutDefer(p, fault) ==
    /\ put[p].pc = "defer"
    /\ LET r == IF fault = "nil" THEN Remove(fs, put[p].tmp)
                ELSE [err |-> fault, fs |-> fs]
       IN  /\ fs' = ReleaseLease(r.fs, p)
           /\ ev' = Called("Remove", r.err)
    /\ put' = [put EXCEPT ![p].pc = "done", ![p].tmp = Empty, ![p].off = 0,
                          ![p].faulted = @ \/ fault # "nil"]
    /\ UNCHANGED <<basePath, ident, get, hist, lst, la, bridge>>

\* io.NewSectionReader(f, off, limit) read to its end
Section(data, off, limit) == SubSeq(data, off + 1, Min(off + limit, Len(data)))

\* hdfsclient.Get: the error, or the bytes the returned stream holds
GetStream(f, bp, key, off, limit) ==
    LET o == Open(f, path(bp, key))
    IN  IF o.err # "nil" THEN [err |-> o.err, stream |-> <<>>]
        ELSE IF o.info.isDir THEN [err |-> "nil", stream |-> <<>>]
        ELSE IF limit > 0
        THEN [err |-> "nil", stream |-> Section(f[RPath(path(bp, key))].data, off, limit)]
        ELSE [err |-> "nil", stream |-> f[RPath(path(bp, key))].data]

\* the ranges <<off, limit>> asked of Get
GetRanges == {<<0, 0>>, <<1, 1>>}

\* Get(key, off, limit): Open and the choice of the stream
GetOpen(off, limit, fault) ==
    /\ get.pc = "idle"
    /\ LET g == IF fault = "nil" THEN GetStream(fs, basePath, sK, off, limit)
                ELSE [err |-> fault, stream |-> <<>>]
       IN  get' = [pc |-> IF g.err = "nil" THEN "reading" ELSE "done",
                   off |-> off, limit |-> limit, stream |-> g.stream, buf |-> <<>>,
                   res |-> g.err, want |-> hist.cur]
    /\ UNCHANGED <<fs, basePath, ident, put, ev, hist, lst, la, bridge>>

\* the caller reads the stream to its end; a failing Read ends it early
GetRead(fault) ==
    /\ get.pc = "reading"
    /\ fault # "nil" => Len(get.stream) > 0
    /\ get' = IF fault = "nil"
              THEN [get EXCEPT !.pc = "done", !.buf = get.stream, !.res = "eof"]
              ELSE [get EXCEPT !.pc = "done", !.buf = SubSeq(get.stream, 1, Len(get.stream) - 1),
                               !.res = fault]
    /\ UNCHANGED <<fs, basePath, ident, put, ev, hist, lst, la, bridge>>

RemoteFaults == {"nil", "other"}
PutKeys == {sK, sKDir}

Next ==
    \/ \E p \in Putters, key \in PutKeys, b \in Contents, n \in TmpIds, fault \in RemoteFaults :
           PutStart(p, key, b, n, fault)
    \/ \E p \in Putters, fault \in RemoteFaults : PutCreate1(p, fault)
    \/ \E p \in Putters, fault \in RemoteFaults : PutMkdir(p, fault)
    \/ \E p \in Putters, fault \in RemoteFaults : PutCreate2(p, fault)
    \/ \E p \in Putters, fault \in RemoteFaults : PutRemoveStale(p, fault)
    \/ \E p \in Putters, fault \in RemoteFaults : PutCreate3(p, fault)
    \/ \E p \in Putters, fault \in {"nil", "read", "other"} : PutCopy(p, fault)
    \/ \E p \in Putters : PutCloseErr(p)
    \/ \E p \in Putters, fault \in {"nil", "replicating", "other"} : PutClose(p, fault)
    \/ \E p \in Putters, fault \in RemoteFaults : PutRename(p, fault)
    \/ \E p \in Putters, fault \in RemoteFaults : PutDefer(p, fault)
    \/ \E r \in GetRanges, fault \in RemoteFaults : GetOpen(r[1], r[2], fault)
    \/ \E fault \in RemoteFaults : GetRead(fault)

Spec == Init /\ [][Next]_vars

-----------------------------------------------------------------------------
(* One client calling Put again and again, each remote call of each Put    *)
(* recorded in ev.  The stores it starts from have the base directory or   *)
(* the key's directory missing, a file in the place of the key's           *)
(* directory, and a temp file left at the temp path: closed, or still held *)
(* open by a writer that is gone (the remote then answers CreateFile with  *)
(* AlreadyBeingCreatedException).                                          *)

\* the client whose Puts are followed
Solo == {1}

\* a writer outside the program that left a file open
GoneWriter == 3

\* the Puts the client makes
MaxPuts == 2

RootOnly == [q \in {<<SL>>} |-> DirNode]

LeftFile(f, p, w) == (RPath(p) :> FileNode(<<3>>, w)) @@ MkdirAll(f, Dir(p)).fs

PutStepStores ==
    UNION {LET kPath == path(bp, sK)
               dPath == path(bp, sKDir)
           IN  {[fs |-> f, basePath |-> bp] :
                    f \in {RootOnly,
                           MkdirAll(RootOnly, bp).fs,
                           MkdirAll(RootOnly, dPath).fs,
                           LeftFile(RootOnly, dPath, 0),
                           LeftFile(RootOnly, kPath, 0),
                           MkdirAll(RootOnly, kPath).fs,
                           LeftFile(RootOnly, TmpName(kPath, 1), 0),
                           LeftFile(RootOnly, TmpName(kPath, 1), GoneWriter),
                           LeftFile(LeftFile(RootOnly, kPath, 0), path(bp, sKSib), 0)}}
           : bp \in Bases}

InitPutSteps ==
    /\ BridgeOff
    /\ \E st \in PutStepStores : fs = st.fs /\ basePath = st.basePath
    /\ ident = DefaultIdent
    /\ put = [p \in Putters |-> PutIdle]
    /\ get = GetIdle
    /\ ev = EvPut(Empty)
    /\ hist = [cur |-> Snapshot(fs, path(basePath, sK)), collided |-> FALSE,
               puts |-> 1, prev |-> [key |-> Empty, err |-> "none", faulted |-> FALSE]]
    /\ lst = LstOff /\ la = LaOff

\* the client, back from a Put, is about to call Put again
PutAgain(p) ==
    /\ put[p].pc = "done"
    /\ hist.puts < MaxPuts
    /\ put' = [put EXCEPT ![p] = PutIdle]
    /\ hist' = [hist EXCEPT !.puts = @ + 1,
                            !.prev = [key |-> put[p].key, err |-> put[p].err,
                                      faulted |-> put[p].faulted]]
    /\ ev' = EvPut(Empty)
    /\ UNCHANGED <<fs, basePath, ident, get, lst, la, bridge>>

\* what the remote may answer a CreateFile for an outside reason: "exist"
\* when another client has just created a file at the path
CreateFaults == RemoteFaults \cup {"exist"}

NextPutSteps ==
    \/ \E p \in Solo, key \in PutKeys, b \in Contents, n \in TmpIds, fault \in RemoteFaults :
           PutStart(p, key, b, n, fault)
    \/ \E p \in Solo, fault \in CreateFaults : PutCreate1(p, fault)
    \/ \E p \in Solo, fault \in RemoteFaults : PutMkdir(p, fault)
    \/ \E p \in Solo, fault \in CreateFaults : PutCreate2(p, fault)
    \/ \E p \in Solo, fault \in RemoteFaults : PutRemoveStale(p, fault)
    \/ \E p \in Solo, fault \in CreateFaults : PutCreate3(p, fault)
    \/ \E p \in Solo, fault \in {"nil", "read", "other"} : PutCopy(p, fault)
    \/ \E p \in Solo : PutCloseErr(p)
    \/ \E p \in Solo, fault \in {"nil", "replicating", "other"} : PutClose(p, fault)
    \/ \E p \in Solo, fault \in RemoteFaults : PutRename(p, fault)
    \/ \E p \in Solo, fault \in RemoteFaults : PutDefer(p, fault)
    \/ \E p \in Solo : PutAgain(p)

SpecPutSteps == InitPutSteps /\ [][NextPutSteps]_vars

-----------------------------------------------------------------------------
(* The stores the listings are checked on: every tree over a few names     *)
(* chosen so that a directory name is a prefix of its siblings' names      *)
(* ("a" next to "a." and "a0"), under the root base path and a nested one. *)

sA == <<97>>
sADot == <<97, 46>>
sA0 == <<97, 48>>
sAB == <<97, 47, 98>>
sABC == <<97, 47, 98, 47, 99>>
sAC == <<97, 47, 99>>
sD == <<100>>
sASl == <<97, 47>>
sABSl == <<97, 47, 98, 47>>
sXSl == <<120, 47>>


\* the nodes a tree may hold, as <<key without trailing "/", is a directory>>
Candidates ==
    {<<sA, TRUE>>, <<sA, FALSE>>, <<sAB, TRUE>>, <<sAB, FALSE>>, <<sABC, FALSE>>,
     <<sAC, FALSE>>, <<sADot, FALSE>>, <<sA0, FALSE>>, <<sD, FALSE>>}

\* a set of nodes is a tree: one node per key, every parent a directory of it
WellFormed(T) ==
    /\ \A x \in T : \A y \in T : x[1] = y[1] => x = y
    /\ \A x \in T : LastSlash(x[1]) > 0 =>
           <<SubSeq(x[1], 1, LastSlash(x[1]) - 1), TRUE>> \in T

Trees == {T \in SUBSET Candidates : WellFormed(T)}

\* the name space holding tree T below base path bp
MkFs(bp, T) ==
    LET keys == {x[1] : x \in T}
        dom  == {<<SL>>, Clean(bp)} \cup {bp \o k : k \in keys}
    IN  [q \in dom |->
            IF q = <<SL>> \/ q = Clean(bp) THEN DirNode
            ELSE LET x == CHOOSE x \in T : bp \o x[1] = q
                 IN  IF x[2] THEN DirNode ELSE FileNode(<<1>>, 0)]

\* a base path whose directory does not exist
NoBaseFs == [q \in {<<SL>>} |-> DirNode]

Stores ==
    {[fs |-> MkFs(bp, T), basePath |-> bp] : bp \in Bases, T \in Trees}
        \cup {[fs |-> NoBaseFs, basePath |-> NestedBase]}

Prefixes == {Empty, sA, sASl, sAB, sABSl, sADot, sD, sXSl}
Markers == {Empty, sA, sASl, sAB, sA0}

MaxLimit == 3
Limits == (1..MaxLimit) \cup {10}
MaxPages == 4

-----------------------------------------------------------------------------
(* A client paging through List: the first call with any prefix, marker    *)
(* and limit, every next call with the last key returned as the marker.    *)

Keys(objs) == [i \in 1..Len(objs) |-> objs[i].key]

LstIdle == [state |-> "idle", prefix |-> Empty, marker |-> Empty, limit |-> 0,
            calls |-> 0, last |-> [objs |-> <<>>, err |-> "nil"],
            lastMarker |-> Empty, pages |-> <<>>]


InitList ==
    /\ BridgeOff
    /\ \E st \in Stores : fs = st.fs /\ basePath = st.basePath
    /\ ident = DefaultIdent
    /\ lst = LstIdle
    /\ put = PutOff /\ get = GetOff /\ ev = EvNone /\ hist = HistOff /\ la = LaOff

ListFirst(prefix, marker, limit) ==
    /\ lst.state = "idle"
    /\ LET r == List(fs, basePath, prefix, marker, <<SL>>, limit)
       IN  lst' = [state |-> "paged", prefix |-> prefix, marker |-> marker,
                   limit |-> limit, calls |-> 1, last |-> r,
                   lastMarker |-> marker, pages |-> r.objs]
    /\ UNCHANGED <<fs, basePath, ident, put, get, ev, hist, la, bridge>>

ListNextPage ==
    /\ lst.state = "paged"
    /\ lst.calls < MaxPages
    /\ lst.last.err = "nil" /\ lst.last.objs # <<>>
    /\ LET m == lst.last.objs[Len(lst.last.objs)].key
           r == List(fs, basePath, lst.prefix, m, <<SL>>, lst.limit)
       IN  lst' = [lst EXCEPT !.calls = @ + 1, !.last = r, !.lastMarker = m,
                              !.pages = @ \o r.objs]
    /\ UNCHANGED <<fs, basePath, ident, put, get, ev, hist, la, bridge>>

\* the delimiters a caller may pass: "/", none, "," and "//"
Delimiters == {<<SL>>, Empty, <<44>>, <<SL, SL>>}

\* one call of List with any delimiter; lst keeps its result and the
\* remote operations it issued
ListDelimited(prefix, marker, delimiter, limit) ==
    /\ lst.state = "idle"
    /\ lst' = [state |-> "delimited", prefix |-> prefix, marker |-> marker,
               limit |-> limit, delimiter |-> delimiter,
               last |-> List(fs, basePath, prefix, marker, delimiter, limit),
               remote |-> ListCalls(fs, basePath, prefix, marker, delimiter)]
    /\ UNCHANGED <<fs, basePath, ident, put, get, ev, hist, la, bridge>>

\* what the remote may answer a call of List for an outside reason
ListFaults == {"nil", "other", "notexist"}

\* one call of List the remote may fail; lst keeps the result and what the
\* remote answered each call List made ("none": not called)
ListOnce(prefix, marker, fh, fo, fr) ==
    /\ lst.state = "idle"
    /\ LET dir0  == path(basePath, prefix)
           slash == HasSuffix(dir0, <<SL>>)
           dir   == IF ~slash THEN Dir(dir0) \o dirSuffix ELSE dir0
           hErr  == IF ~(slash /\ marker = Empty) THEN "none"
                    ELSE Faulted(fh, Stat(fs, dir0))
           oErr  == IF hErr \notin {"none", "nil"} THEN "none"
                    ELSE Faulted(fo, Open(fs, dir))
           rErr  == IF oErr # "nil" THEN "none" ELSE Faulted(fr, Readdir(fs, dir))
       IN  lst' = [state |-> "once", prefix |-> prefix, marker |-> marker,
                   last |-> ListFaulted(fs, basePath, prefix, marker, <<SL>>, MaxLimit,
                                        fh, fo, fr),
                   hErr |-> hErr, oErr |-> oErr, rErr |-> rErr]
    /\ UNCHANGED <<fs, basePath, ident, put, get, ev, hist, la, bridge>>

NextList ==
    \/ \E prefix \in Prefixes, marker \in Markers, fh, fo, fr \in ListFaults :
           ListOnce(prefix, marker, fh, fo, fr)
    \/ \E prefix \in Prefixes, marker \in Markers, limit \in Limits :
           ListFirst(prefix, marker, limit)
    \/ ListNextPage
    \/ \E prefix \in Prefixes, marker \in Markers, delimiter \in Delimiters, limit \in Limits :
           ListDelimited(prefix, marker, delimiter, limit)

SpecList == InitList /\ [][NextList]_vars

-----------------------------------------------------------------------------
(* Delete, called again and again on one store.                            *)

DelKeys == {Empty, sA, sASl, sAB, sABSl, sABC, sD}

\* hdfsclient.Delete; ev keeps the call, its result and what it found
Delete(key, fault) ==
    /\ LET pth == path(basePath, key)
           r   == IF fault = "nil" THEN Remove(fs, pth) ELSE [err |-> fault, fs |-> fs]
           err == IF r.err # "nil" /\ IsNotExist(r.err) THEN "nil" ELSE r.err
       IN  /\ fs' = r.fs
           /\ ev' = [op |-> "Delete", key |-> key, res |-> err, fault |-> fault,
                     existed |-> Exists(fs, pth), changed |-> r.fs # fs,
                     afterOk |-> ev.op = "Delete" /\ ev.key = key /\ ev.res = "nil",
                     afterRemoval |-> ev.op = "Delete" /\ ev.key = key /\ ev.res = "nil"
                                          /\ ev.changed]
    /\ UNCHANGED <<basePath, ident, put, get, hist, lst, la, bridge>>

InitDelete ==
    /\ BridgeOff
    /\ \E st \in Stores : fs = st.fs /\ basePath = st.basePath
    /\ ident = DefaultIdent
    /\ ev = EvNone
    /\ put = PutOff /\ get = GetOff /\ hist = HistOff /\ lst = LstOff /\ la = LaOff

NextDelete == \E key \in DelKeys, fault \in RemoteFaults : Delete(key, fault)

SpecDelete == InitDelete /\ [][NextDelete]_vars

-----------------------------------------------------------------------------
(* Head and Chown on one store, under the default and under configured     *)
(* superuser and supergroup names.                                         *)

\* the pairs HADOOP_SUPER_USER and HADOOP_SUPER_GROUP may configure
Idents ==
    {DefaultIdent,
     [superuser |-> "admin", supergroup |-> "wheel"],
     [superuser |-> "root", supergroup |-> "staff"]}

\* the owners and groups a caller passes to Chown
Owners == {"root", "alice"}
Groups == {"root", "staff"}

\* the stores Head and Chown run on: the trees over a, a/b and d
MetaStores ==
    {st \in Stores :
        \E T \in SUBSET {<<sA, TRUE>>, <<sA, FALSE>>, <<sAB, FALSE>>, <<sD, FALSE>>} :
            \E bp \in Bases : st = [fs |-> MkFs(bp, T), basePath |-> bp]}
        \cup {[fs |-> NoBaseFs, basePath |-> NestedBase]}

MetaKeys == {Empty, sA, sASl, sAB, sD}

\* the calls of Chown a run makes
MaxChowns == 2

\* hdfsclient.Head, called by a client; ev keeps the call and its result
HeadCall(key, fault) ==
    /\ LET h == IF fault = "nil" THEN HeadKey(fs, basePath, key)
                ELSE [err |-> fault, obj |-> NilObj]
       IN  ev' = [op |-> "Head", key |-> key, res |-> h.err, obj |-> h.obj]
    /\ UNCHANGED <<fs, basePath, ident, put, get, hist, lst, la, bridge>>

\* hdfsclient.Chown; ev keeps the call and its result
Chown(key, owner, group, fault) ==
    /\ hist.chowns < MaxChowns
    /\ LET o == IF owner = "root" THEN ident.superuser ELSE owner
           g == IF group = "root" THEN ident.supergroup ELSE group
           r == IF fault = "nil" THEN ClientChown(fs, path(basePath, key), o, g)
                ELSE [err |-> fault, fs |-> fs]
       IN  /\ fs' = r.fs
           /\ ev' = [op |-> "Chown", key |-> key, owner |-> owner, group |-> group,
                     res |-> r.err]
    /\ hist' = [hist EXCEPT !.chowns = @ + 1]
    /\ UNCHANGED <<basePath, ident, put, get, lst, la, bridge>>

InitMeta ==
    /\ BridgeOff
    /\ \E st \in MetaStores : fs = st.fs /\ basePath = st.basePath
    /\ ident \in Idents
    /\ ev = EvNone
    /\ hist = [chowns |-> 0]
    /\ put = PutOff /\ get = GetOff /\ lst = LstOff /\ la = LaOff

NextMeta ==
    \/ \E key \in MetaKeys, fault \in RemoteFaults : HeadCall(key, fault)
    \/ \E key \in MetaKeys, owner \in Owners, group \in Groups, fault \in RemoteFaults :
           Chown(key, owner, group, fault)

SpecMeta == InitMeta /\ [][NextMeta]_vars

-----------------------------------------------------------------------------
(* Modes: Head and List over the directory a and the file d, each with one *)
(* of the permissions the remote may hold for it.                          *)

\* 0644, 0755, 01755, 01777 and 01000
ModePerms ==
    {{2, 5, 7, 8}, Perm0755, Perm0755 \cup {HdfsStickyBit}, 0..HdfsStickyBit,
     {HdfsStickyBit}}

ModeStores ==
    {[fs |-> [MkFs(bp, {<<sA, TRUE>>, <<sD, FALSE>>})
                  EXCEPT ![bp \o sA].perm = pa, ![bp \o sD].perm = pd],
      basePath |-> bp] : bp \in Bases, pa \in ModePerms, pd \in ModePerms}

InitMode ==
    /\ BridgeOff
    /\ \E st \in ModeStores : fs = st.fs /\ basePath = st.basePath
    /\ ident = DefaultIdent
    /\ ev = EvNone
    /\ lst = LstIdle
    /\ put = PutOff /\ get = GetOff /\ hist = HistOff /\ la = LaOff

NextMode ==
    \/ \E key \in MetaKeys, fault \in RemoteFaults : HeadCall(key, fault)
    \/ \E prefix \in Prefixes, marker \in Markers, fh, fo, fr \in ListFaults :
           ListOnce(prefix, marker, fh, fo, fr)

SpecMode == InitMode /\ [][NextMode]_vars

-----------------------------------------------------------------------------
(* Get over ranges: one client reads the file d, the directory a and the   *)
(* missing x at every offset and limit.                                    *)

MaxOff == 3
MaxGetLimit == 3
GetOffs == 0..MaxOff
GetLimits == (0 - 1)..MaxGetLimit
GetKeys == {sD, sA, sASl, sXSl}
GetContents == {<<>>, <<1>>, <<1, 2>>, <<1, 2, 3>>}

\* the stores Get reads: the directory a and the file d of each content, under
\* each base path
GetStores ==
    {[fs |-> [MkFs(bp, {<<sA, TRUE>>, <<sD, FALSE>>}) EXCEPT ![bp \o sD].data = b],
      basePath |-> bp] : bp \in Bases, b \in GetContents}

\* Get(key, off, limit): Open and the choice of the stream
GetKey(key, off, limit, fault) ==
    /\ get.pc = "idle"
    /\ LET g == IF fault = "nil" THEN GetStream(fs, basePath, key, off, limit)
                ELSE [err |-> fault, stream |-> <<>>]
       IN  get' = [pc |-> IF g.err = "nil" THEN "reading" ELSE "done",
                   key |-> key, off |-> off, limit |-> limit, stream |-> g.stream,
                   buf |-> <<>>, res |-> g.err]
    /\ UNCHANGED <<fs, basePath, ident, put, ev, hist, lst, la, bridge>>

InitGet ==
    /\ BridgeOff
    /\ \E st \in GetStores : fs = st.fs /\ basePath = st.basePath
    /\ ident = DefaultIdent
    /\ get = [pc |-> "idle"]
    /\ put = PutOff /\ ev = EvNone /\ hist = HistOff /\ lst = LstOff /\ la = LaOff

NextGet ==
    \/ \E key \in GetKeys, off \in GetOffs, limit \in GetLimits, fault \in RemoteFaults :
           GetKey(key, off, limit, fault)
    \/ \E fault \in RemoteFaults : GetRead(fault)

SpecGet == InitGet /\ [][NextGet]_vars

-----------------------------------------------------------------------------
(* ListAll: the call resolves the traversal root, then a goroutine walks   *)
(* the tree depth-first and sends what it finds on the channel listed,     *)
(* which a consumer receives from.  walk's recursion is the stack todo: a  *)
(* frame is a path about to be opened and handed to the callback ("visit") *)
(* or a directory whose children are about to be read ("readdir").         *)

\* the capacity of the channel, 10240 in the program
ChanCap == 2

\* what the remote answers when an operation fails for an outside reason
IoFaults == {"nil", "other", "eof"}

NilElem == [nil |-> TRUE, obj |-> NilObj]
ObjElem(o) == [nil |-> FALSE, obj |-> o]

LaIdle == [state |-> "idle", prefix |-> Empty, marker |-> Empty, root |-> Empty,
           todo |-> <<>>, listed |-> <<>>, got |-> <<>>, closed |-> FALSE,
           err |-> "nil", f2 |-> "nil", started |-> FALSE,
           errPath |-> Empty, eofs |-> FALSE, skipped |-> {}, stopped |-> FALSE]

Frame(p, phase) == [path |-> p, phase |-> phase]

\* a callback that reports an error on the channel and lets walk go on
walkFnGoesOn(pth, info, err, prefix, marker, root, bp) ==
    IF err # "nil"
    THEN IF err = "eof" THEN [ret |-> "nil", send |-> <<>>]
         ELSE [ret |-> "nil", send |-> <<NilElem>>]
    ELSE IF Len(pth) < Len(bp) THEN [ret |-> "panic", send |-> <<>>]
    ELSE LET key == SliceFrom(pth, Len(bp))
         IN  IF ~HasPrefix(key, prefix) \/ (marker # Empty /\ StrLeq(key, marker))
             THEN IF info.isDir /\ ~HasPrefix(prefix, key) /\ ~HasPrefix(marker, key)
                  THEN [ret |-> "skipdir", send |-> <<>>]
                  ELSE [ret |-> "nil", send |-> <<>>]
             ELSE LET key2 == IF info.isDir /\ (pth # root \/ ~HasSuffix(root, <<SL>>))
                              THEN key \o <<SL>> ELSE key
                  IN  [ret |-> "nil", send |-> <<ObjElem(toFile(key2, info))>>]


\* a callback that prunes a directory without looking at the marker
walkFnPrunesByPrefix(pth, info, err, prefix, marker, root, bp) ==
    IF err # "nil"
    THEN IF err = "eof" THEN [ret |-> "nil", send |-> <<>>]
         ELSE [ret |-> "err", send |-> <<NilElem>>]
    ELSE IF Len(pth) < Len(bp) THEN [ret |-> "panic", send |-> <<>>]
    ELSE LET key == SliceFrom(pth, Len(bp))
         IN  IF ~HasPrefix(key, prefix) \/ (marker # Empty /\ StrLeq(key, marker))
             THEN IF info.isDir /\ ~HasPrefix(prefix, key)
                  THEN [ret |-> "skipdir", send |-> <<>>]
                  ELSE [ret |-> "nil", send |-> <<>>]
             ELSE LET key2 == IF info.isDir /\ (pth # root \/ ~HasSuffix(root, <<SL>>))
                              THEN key \o <<SL>> ELSE key
                  IN  [ret |-> "nil", send |-> <<ObjElem(toFile(key2, info))>>]

\* the callback ListAll hands to walk: what it returns, what it sends
walkFn(pth, info, err, prefix, marker, root, bp) ==
    IF err # "nil"
    THEN IF err = "eof" THEN [ret |-> "nil", send |-> <<>>]
         ELSE [ret |-> "err", send |-> <<NilElem>>]
    ELSE IF Len(pth) < Len(bp) THEN [ret |-> "panic", send |-> <<>>]
    ELSE LET key == SliceFrom(pth, Len(bp))
         IN  IF ~HasPrefix(key, prefix) \/ (marker # Empty /\ StrLeq(key, marker))
             THEN IF info.isDir /\ ~HasPrefix(prefix, key) /\ ~HasPrefix(marker, key)
                  THEN [ret |-> "skipdir", send |-> <<>>]
                  ELSE [ret |-> "nil", send |-> <<>>]
             ELSE LET key2 == IF info.isDir /\ (pth # root \/ ~HasSuffix(root, <<SL>>))
                              THEN key \o <<SL>> ELSE key
                  IN  [ret |-> "nil", send |-> <<ObjElem(toFile(key2, info))>>]

\* the root ListAll walks from, given what the first Stat answered
WalkRoot(bp, prefix, err1) ==
    IF (err1 # "nil" /\ IsNotExist(err1)) \/ ~HasSuffix(prefix, <<SL>>)
    THEN Dir(path(bp, prefix)) ELSE path(bp, prefix)

\* hdfsclient.ListAll up to the start of the goroutine
ListAllCall(prefix, marker, f1, f2) ==
    /\ la.state = "idle"
    /\ f1 \in {"nil", "other"} /\ f2 \in {"nil", "other"}
    /\ LET err1 == Faulted(f1, Stat(fs, path(basePath, prefix)))
           root == WalkRoot(basePath, prefix, err1)
           err2 == Faulted(f2, Stat(fs, root))
       IN  la' = IF err2 # "nil" /\ IsNotExist(err2)
                 THEN [la EXCEPT !.state = "closed", !.closed = TRUE, !.prefix = prefix,
                                 !.marker = marker, !.root = root, !.f2 = f2]
                 ELSE [la EXCEPT !.state = "walking", !.prefix = prefix,
                                 !.marker = marker, !.root = root, !.f2 = f2,
                                 !.started = TRUE,
                                 !.todo = <<Frame(root, "visit")>>]
    /\ UNCHANGED <<fs, basePath, ident, put, get, ev, hist, lst, bridge>>

\* a send that never waits for room
HasRoomAlways(n) == TRUE

\* listed <- e: the send goes through once the channel has room for it
HasRoom(n) == Len(la.listed) + n <= ChanCap


\* walk, from Open to the callback's answer
WalkVisit(fault) ==
    /\ la.state = "walking" /\ la.todo # <<>> /\ la.todo[1].phase = "visit"
    /\ \E file \in {Open(fs, la.todo[1].path)} :
       \E r \in {walkFn(la.todo[1].path,
                         IF Faulted(fault, file) = "nil" THEN file.info ELSE NilInfo,
                         Faulted(fault, file), la.prefix, la.marker, la.root, basePath)} :
       LET pth  == la.todo[1].path
           err  == Faulted(fault, file)
           info == IF err = "nil" THEN file.info ELSE NilInfo
           rest == Tail(la.todo)
       IN  /\ HasRoom(Len(r.send))
           /\ la' = IF r.ret = "panic" THEN [la EXCEPT !.state = "panic"]
                    ELSE IF r.ret = "err"
                    THEN [la EXCEPT !.todo = <<>>, !.listed = @ \o r.send, !.errPath = pth]
                    ELSE IF r.ret = "skipdir"
                    THEN [la EXCEPT !.todo = rest, !.skipped = @ \cup {pth}]
                    ELSE IF err # "nil" \/ ~info.isDir
                    THEN [la EXCEPT !.todo = rest, !.listed = @ \o r.send,
                                    !.eofs = @ \/ err # "nil"]
                    ELSE [la EXCEPT !.todo = <<Frame(pth, "readdir")>> \o rest,
                                    !.listed = @ \o r.send]
    /\ UNCHANGED <<fs, basePath, ident, put, get, ev, hist, lst, bridge>>

\* the children in the order of their bare names, a directory's without "/"
ChildFramesBareOrder(pth, infos) ==
    LET names == SortStrings({i.name : i \in infos})
    IN  [i \in 1..Len(names) |-> Frame(Join(pth, names[i]), "visit")]

\* the frames of a directory's children, in the order walk recurses into them
ChildFrames(pth, infos) ==
    LET names == SortStrings({SortName(i) : i \in infos})
    IN  [i \in 1..Len(names) |-> Frame(Join(pth, TrimSuffix(names[i], <<SL>>)), "visit")]

\* walk, from Readdir on
WalkReaddir(fault) ==
    /\ la.state = "walking" /\ la.todo # <<>> /\ la.todo[1].phase = "readdir"
    /\ \E rd \in {Readdir(fs, la.todo[1].path)} :
       LET pth  == la.todo[1].path
           err  == Faulted(fault, rd)
           r    == walkFn(pth, NilInfo, err, la.prefix, la.marker, la.root, basePath)
           rest == Tail(la.todo)
       IN  /\ err # "nil" => HasRoom(Len(r.send))
           /\ la' = IF err = "nil"
                    THEN [la EXCEPT !.todo = ChildFrames(pth, rd.infos) \o rest]
                    ELSE IF r.ret = "err"
                    THEN [la EXCEPT !.todo = <<>>, !.listed = @ \o r.send,
                                    !.errPath = pth]
                    ELSE [la EXCEPT !.todo = rest, !.eofs = TRUE]
    /\ UNCHANGED <<fs, basePath, ident, put, get, ev, hist, lst, bridge>>

\* a goroutine that gives up and closes once the consumer has stopped
WalkCloseOnStop ==
    /\ la.state = "walking" /\ (la.todo = <<>> \/ la.stopped)
    /\ la' = [la EXCEPT !.state = "closed", !.closed = TRUE]
    /\ UNCHANGED <<fs, basePath, ident, put, get, ev, hist, lst, bridge>>


\* the goroutine's close(listed) once walk has returned
WalkClose ==
    /\ la.state = "walking" /\ la.todo = <<>>
    /\ la' = [la EXCEPT !.state = "closed", !.closed = TRUE]
    /\ UNCHANGED <<fs, basePath, ident, put, get, ev, hist, lst, bridge>>

\* the consumer receives one element
Recv ==
    /\ la.state \in {"walking", "closed", "panic"} /\ la.listed # <<>>
    /\ ~la.stopped
    /\ la' = [la EXCEPT !.listed = Tail(@), !.got = Append(@, la.listed[1])]
    /\ UNCHANGED <<fs, basePath, ident, put, get, ev, hist, lst, bridge>>

InitListAll ==
    /\ BridgeOff
    /\ \E st \in Stores : fs = st.fs /\ basePath = st.basePath
    /\ ident = DefaultIdent
    /\ la = LaIdle
    /\ put = PutOff /\ get = GetOff /\ ev = EvNone /\ hist = HistOff /\ lst = LstOff

NextListAll ==
    \/ \E prefix \in Prefixes, marker \in Markers, f1, f2 \in {"nil", "other"} :
           ListAllCall(prefix, marker, f1, f2)
    \/ \E fault \in IoFaults : WalkVisit(fault)
    \/ \E fault \in IoFaults : WalkReaddir(fault)
    \/ WalkClose
    \/ Recv

SpecListAll == InitListAll /\ [][NextListAll]_vars

\* the caller of ListAll gives up the channel before it is closed and
\* receives no more; ListAll takes nothing by which it could tell the
\* goroutine
StopReceiving ==
    /\ la.state = "walking" /\ ~la.stopped
    /\ la' = [la EXCEPT !.stopped = TRUE]
    /\ UNCHANGED <<fs, basePath, ident, put, get, ev, hist, lst, bridge>>

\* the stores the abandoned scans run over: a/, a/b/, a/b/c and d, under
\* each base path
AbandonStores ==
    {[fs |-> MkFs(bp, {<<sA, TRUE>>, <<sAB, TRUE>>, <<sABC, FALSE>>, <<sD, FALSE>>}),
      basePath |-> bp] : bp \in Bases}

InitAbandon ==
    /\ BridgeOff
    /\ \E st \in AbandonStores : fs = st.fs /\ basePath = st.basePath
    /\ ident = DefaultIdent
    /\ la = LaIdle
    /\ put = PutOff /\ get = GetOff /\ ev = EvNone /\ hist = HistOff /\ lst = LstOff

\* scans the remote answers without fault, under a consumer that may stop
NextAbandon ==
    \/ \E prefix \in Prefixes, marker \in Markers : ListAllCall(prefix, marker, "nil", "nil")
    \/ WalkVisit("nil")
    \/ WalkReaddir("nil")
    \/ WalkClose
    \/ Recv
    \/ StopReceiving

\* the goroutine keeps running; nothing makes the consumer receive
SpecAbandon ==
    /\ InitAbandon /\ [][NextAbandon]_vars
    /\ WF_vars(WalkVisit("nil"))
    /\ WF_vars(WalkReaddir("nil"))
    /\ WF_vars(WalkClose)


-----------------------------------------------------------------------------
(* Put next to List and ListAll: one client puts while another lists, the  *)
(* remote failing no call.                                                 *)

\* the prefixes listed while a Put on sK is in flight
PutListPrefixes == {Empty, sKDir, sK}

\* the stores the Puts and the listings start from: empty, or holding d/, or
\* d/x, under each base path
PutListStores ==
    UNION {{[fs |-> f, basePath |-> bp] :
               f \in {MkdirAll(RootOnly, bp).fs,
                      MkdirAll(RootOnly, path(bp, sKDir)).fs,
                      LeftFile(RootOnly, path(bp, sK), 0)}} : bp \in Bases}

InitPutList ==
    /\ BridgeOff
    /\ \E st \in PutListStores : fs = st.fs /\ basePath = st.basePath
    /\ ident = DefaultIdent
    /\ put = [p \in Putters |-> PutIdle]
    /\ get = GetIdle
    /\ ev = EvNone
    /\ hist = [cur |-> Snapshot(fs, path(basePath, sK)), collided |-> FALSE]
    /\ lst = LstIdle /\ la = LaIdle

NextPutList ==
    \/ \E p \in Solo, b \in Contents, n \in TmpIds : PutStart(p, sK, b, n, "nil")
    \/ \E p \in Solo : PutCreate1(p, "nil")
    \/ \E p \in Solo : PutMkdir(p, "nil")
    \/ \E p \in Solo : PutCreate2(p, "nil")
    \/ \E p \in Solo : PutCopy(p, "nil")
    \/ \E p \in Solo : PutClose(p, "nil")
    \/ \E p \in Solo : PutRename(p, "nil")
    \/ \E p \in Solo : PutDefer(p, "nil")
    \/ \E prefix \in PutListPrefixes : ListOnce(prefix, Empty, "nil", "nil", "nil")
    \/ \E prefix \in PutListPrefixes : ListAllCall(prefix, Empty, "nil", "nil")
    \/ WalkVisit("nil")
    \/ WalkReaddir("nil")
    \/ WalkClose
    \/ Recv

SpecPutList == InitPutList /\ [][NextPutList]_vars


-----------------------------------------------------------------------------
(* libjfs: the table of file handles.  Threads of the Java SDK call        *)
(* jfs_open, jfs_close and jfs_term at once; a step is what a call does    *)
(* while it holds filesLock, or one call of Close on a file.  A file is    *)
(* the number of the jfs_open that made it.                                *)

Threads == {1, 2, 3}
Wrappers == {1, 2}

\* the files the threads open in a run
MaxOpens == 2

\* the handles jfs_close is called with
Handles == 1..MaxOpens + 1

CallIdle == [pc |-> "idle", fd |-> 0, f |-> 0, go |-> {}, ret |-> 0]

\* the handle nextFileHandle finds: the first free one from nextHandle on
FreeFrom(i) == CHOOSE j \in i..(i + Cardinality(DOMAIN openFiles)) :
                   /\ j \notin DOMAIN openFiles
                   /\ \A k \in i..(j - 1) : k \in DOMAIN openFiles

\* jfs_open, from the file made by w.Open on: nextFileHandle(f, w)
jfs_open(t, w) ==
    /\ callers[t].pc = "idle"
    /\ Cardinality(DOMAIN closes) < MaxOpens
    /\ LET f == Cardinality(DOMAIN closes) + 1
           i == FreeFrom(nextHandle)
       IN  /\ openFiles' = (i :> [file |-> f, w |-> w]) @@ openFiles
           /\ nextHandle' = i + 1
           /\ closes' = (f :> 0) @@ closes
           /\ callers' = [callers EXCEPT ![t] = [CallIdle EXCEPT !.ret = i, !.f = f]]
    /\ UNCHANGED <<fs, basePath, ident, put, get, ev, hist, lst, la>>

\* jfs_close(fd), the lookup under filesLock; 0 is returned for no entry
jfs_close_lookup(t, fd) ==
    /\ callers[t].pc = "idle"
    /\ callers' = [callers EXCEPT ![t] =
                      IF fd \in DOMAIN openFiles
                      THEN [CallIdle EXCEPT !.pc = "free", !.fd = fd, !.f = openFiles[fd].file]
                      ELSE [CallIdle EXCEPT !.fd = fd]]
    /\ UNCHANGED <<fs, basePath, ident, put, get, ev, hist, lst, la>>
    /\ UNCHANGED <<openFiles, nextHandle, closes>>

\* freeHandle(fd), called by jfs_close
freeHandle(t) ==
    /\ callers[t].pc = "free"
    /\ openFiles' = [h \in DOMAIN openFiles \ {callers[t].fd} |-> openFiles[h]]
    /\ callers' = [callers EXCEPT ![t].pc = "close"]
    /\ UNCHANGED <<fs, basePath, ident, put, get, ev, hist, lst, la>>
    /\ UNCHANGED <<nextHandle, closes>>

\* f.Close(...), the last call of jfs_close
jfs_close_Close(t) ==
    /\ callers[t].pc = "close"
    /\ closes' = [closes EXCEPT ![callers[t].f] = @ + 1]
    /\ callers' = [callers EXCEPT ![t].pc = "idle"]
    /\ UNCHANGED <<fs, basePath, ident, put, get, ev, hist, lst, la>>
    /\ UNCHANGED <<openFiles, nextHandle>>

\* jfs_term(h) under filesLock: a goroutine is started for every open file
\* of the wrapper, and the handles of these files are deleted
jfs_term(t, w) ==
    /\ callers[t].pc = "idle"
    /\ LET toClose == {fd \in DOMAIN openFiles : openFiles[fd].w = w}
       IN  /\ openFiles' = [h \in DOMAIN openFiles \ toClose |-> openFiles[h]]
           /\ callers' = [callers EXCEPT ![t] =
                             [CallIdle EXCEPT !.pc = "wait",
                                              !.go = {openFiles[fd].file : fd \in toClose}]]
    /\ UNCHANGED <<fs, basePath, ident, put, get, ev, hist, lst, la>>
    /\ UNCHANGED <<nextHandle, closes>>

\* a goroutine of jfs_term: f.Close(ctx) and m.Done()
jfs_term_go(t, f) ==
    /\ callers[t].pc = "wait" /\ f \in callers[t].go
    /\ closes' = [closes EXCEPT ![f] = @ + 1]
    /\ callers' = [callers EXCEPT ![t].go = @ \ {f}]
    /\ UNCHANGED <<fs, basePath, ident, put, get, ev, hist, lst, la>>
    /\ UNCHANGED <<openFiles, nextHandle>>

\* m.Wait() returns in jfs_term
jfs_term_wait(t) ==
    /\ callers[t].pc = "wait" /\ callers[t].go = {}
    /\ callers' = [callers EXCEPT ![t].pc = "idle"]
    /\ UNCHANGED <<fs, basePath, ident, put, get, ev, hist, lst, la>>
    /\ UNCHANGED <<openFiles, nextHandle, closes>>

InitHandles ==
    /\ openFiles = <<>> /\ nextHandle = 1 /\ closes = <<>>
    /\ callers = [t \in Threads |-> CallIdle]
    /\ fs = RootOnly /\ basePath = RootBase /\ ident = DefaultIdent
    /\ put = PutOff /\ get = GetOff /\ ev = EvNone /\ hist = HistOff
    /\ lst = LstOff /\ la = LaOff

NextHandles ==
    \/ \E t \in Threads, w \in Wrappers : jfs_open(t, w)
    \/ \E t \in Threads, fd \in Handles : jfs_close_lookup(t, fd)
    \/ \E t \in Threads : freeHandle(t)
    \/ \E t \in Threads : jfs_close_Close(t)
    \/ \E t \in Threads, w \in Wrappers : jfs_term(t, w)
    \/ \E t \in Threads, f \in 1..MaxOpens : jfs_term_go(t, f)
    \/ \E t \in Threads : jfs_term_wait(t)

SpecHandles == InitHandles /\ [][NextHandles]_vars


\* the stores the fair runs of ListAll start from: directory a holding a/b,
\* and the single file d, under each base path
FairStores ==
    {[fs |-> MkFs(bp, T), basePath |-> bp] :
        bp \in Bases, T \in {{<<sA, TRUE>>, <<sAB, FALSE>>}, {<<sD, FALSE>>}}}

InitListAllFair ==
    /\ BridgeOff
    /\ \E st \in FairStores : fs = st.fs /\ basePath = st.basePath
    /\ ident = DefaultIdent
    /\ la = LaIdle
    /\ put = PutOff /\ get = GetOff /\ ev = EvNone /\ hist = HistOff /\ lst = LstOff

\* the goroutine keeps running and the consumer keeps receiving
SpecListAllFair ==
    /\ InitListAllFair /\ [][NextListAll]_vars
    /\ WF_vars(\E fault \in IoFaults : WalkVisit(fault))
    /\ WF_vars(\E fault \in IoFaults : WalkReaddir(fault))
    /\ WF_vars(WalkClose)
    /\ WF_vars(Recv)

-----------------------------------------------------------------------------
(* Claims about List *)

Ascending(keys) == \A i \in 1..(Len(keys) - 1) : StrLess(keys[i], keys[i + 1])

\* C6: the entries one List call returns, the self-listing head entry
\* included, are in strictly ascending byte-wise key order, no key twice.
C6_ListStrictlyAscending ==
    lst.state = "paged" => Ascending(Keys(lst.last.objs))

\* a page holding the head entry, then a child directory, then a child file
C6_Witness ==
    /\ lst.state = "paged"
    /\ Keys(lst.last.objs) = <<sASl, sABSl, sAC>>

\* C8: with limit >= 1, List returns at most limit entries, the head entry
\* counted.
C8_ListAtMostLimit ==
    lst.state = "paged" /\ lst.limit >= 1 => Len(lst.last.objs) <= lst.limit

\* what List enumerates for the first call's prefix and marker when no limit
\* cuts it short
FullListing ==
    List(fs, basePath, lst.prefix, lst.marker, <<SL>>, Cardinality(DOMAIN fs) + 1).objs

\* C9: the pages of a paging client, concatenated, are the unpaged listing
\* from its first marker with nothing twice and nothing left out, and every
\* page after the first holds exactly the next keys, limit of them or all
\* that remain.
C9_PagingComposes ==
    lst.state = "paged" /\ lst.last.err = "nil" =>
        /\ Len(lst.pages) <= Len(FullListing)
        /\ lst.pages = SubSeq(FullListing, 1, Len(lst.pages))
        /\ lst.calls >= 2 =>
               Len(lst.last.objs) =
                   Min(lst.limit, Len(FullListing) - (Len(lst.pages) - Len(lst.last.objs)))

\* the direct children of the directory prefix names, as List keys, ascending
ChildKeys(prefix) ==
    SortStrings({SliceFrom(q, Len(basePath)) \o (IF fs[q].dir THEN <<SL>> ELSE Empty) :
                    q \in Children(fs, RPath(path(basePath, prefix)))})

\* the store of the spec's example: objects a/b, a/c, d and directory a/
ExampleTree == {<<sA, TRUE>>, <<sAB, FALSE>>, <<sAC, FALSE>>, <<sD, FALSE>>}

\* C10: for an existing directory p (ending in "/"), List(p, "", "/", n)
\* returns the entry p first and then the direct children of p in order;
\* List(p, p, "/", n) does not hold p; on the example store
\* List("a/", "", "/", 10) is exactly a/, a/b, a/c.
C10_ListSelfEntryFirst ==
    lst.state = "paged" /\ lst.calls = 1 /\ HasSuffix(lst.prefix, <<SL>>)
        /\ IsDirAt(fs, path(basePath, lst.prefix)) =>
        LET keys == Keys(lst.last.objs)
        IN  /\ lst.last.err = "nil"
            /\ lst.marker = Empty =>
                  /\ keys # <<>> /\ keys[1] = lst.prefix /\ lst.last.objs[1].isDir
                  /\ Len(keys) - 1 <= Len(ChildKeys(lst.prefix))
                  /\ Tail(keys) = SubSeq(ChildKeys(lst.prefix), 1, Len(keys) - 1)
                  /\ Len(keys) - 1 >= Min(lst.limit - 1, Len(ChildKeys(lst.prefix)))
            /\ lst.marker = lst.prefix => \A i \in 1..Len(keys) : keys[i] # lst.prefix
            /\ (\E bp \in Bases : fs = MkFs(bp, ExampleTree) /\ basePath = bp)
                   /\ lst.prefix = sASl /\ lst.marker = Empty /\ lst.limit = 10 =>
                  keys = <<sASl, sAB, sAC>>

\* the example call has returned
C10_Witness ==
    /\ lst.state = "paged" /\ lst.calls = 1
    /\ fs = MkFs(RootBase, ExampleTree) /\ basePath = RootBase
    /\ lst.prefix = sASl /\ lst.marker = Empty /\ lst.limit = 10
    /\ Len(lst.last.objs) = 3

\* key k begins with the bytes of p
StartsWith(k, p) == \E n \in 0..Len(k) : p = [i \in 1..n |-> k[i]]

\* C11: every entry a List call with delimiter "/" returns has a key that
\* starts with the call's prefix and, when the call's marker is non-empty,
\* is byte-wise strictly greater than the marker.
C11_ListPrefixAndMarker ==
    lst.state = "paged" =>
        \A i \in 1..Len(lst.last.objs) :
            /\ StartsWith(lst.last.objs[i].key, lst.prefix)
            /\ lst.lastMarker # Empty => StrLess(lst.lastMarker, lst.last.objs[i].key)

\* List("a/", "a/b") has returned the directory a/b/ and the file a/c
C11_Witness ==
    /\ lst.state = "paged" /\ lst.calls = 1
    /\ lst.prefix = sASl /\ lst.marker = sAB
    /\ Keys(lst.last.objs) = <<sABSl, sAC>>

\* C14: a List called with a delimiter other than "/", the empty one
\* included, returns the UnsupportedOperation error and no entries and
\* issues no remote operation, whatever the prefix, marker and limit.
C14_ListOtherDelimiter ==
    (lst.state = "delimited" /\ lst.delimiter # <<SL>>) =>
        /\ lst.last.err = "notsupported"
        /\ lst.last.objs = <<>>
        /\ lst.remote = <<>>

\* List("a/", "", "", 10) has been refused on a store where a/ holds a/b
C14_Witness ==
    /\ lst.state = "delimited" /\ lst.delimiter = Empty
    /\ lst.prefix = sASl /\ lst.marker = Empty /\ lst.limit = 10
    /\ Exists(fs, path(basePath, sAB))
    /\ lst.last.err = "notsupported"

\* the key of the directory List enumerates: the prefix when it ends in
\* "/" or is empty, else the prefix up to its last "/"
ListingDirKey(prefix) == SubSeq(prefix, 1, LastSlash(prefix))

\* k is the key of something directly in the directory of key d
DirectChildKey(k, d) ==
    /\ StartsWith(k, d)
    /\ LET bare == TrimSuffix(SliceFrom(k, Len(d)), <<SL>>)
       IN  bare # Empty /\ \A i \in 1..Len(bare) : bare[i] # SL

\* C29: List is single-level: every entry it returns is the entry of the
\* prefix itself, at the head, or the entry of a node directly in the
\* listing directory; nothing two or more levels below it is returned, and
\* a child directory is returned once, its key ending in "/", without what
\* it holds.
C29_ListSingleLevel ==
    lst.state = "paged" =>
        LET objs == lst.last.objs
            d    == ListingDirKey(lst.prefix)
        IN  /\ \A i \in 1..Len(objs) :
                   \/ i = 1 /\ objs[i].key = lst.prefix /\ lst.lastMarker = Empty
                   \/ /\ DirectChildKey(objs[i].key, d)
                      /\ LET q == basePath \o TrimSuffix(objs[i].key, <<SL>>)
                         IN  /\ q \in DOMAIN fs
                             /\ fs[q].dir = objs[i].isDir
                             /\ fs[q].dir = HasSuffix(objs[i].key, <<SL>>)
            /\ \A i, j \in 1..Len(objs) : objs[i].key = objs[j].key => i = j

\* List("a/", "", "/", 10) has returned a/ and a/b/ and not a/b/c, which
\* exists
C29_Witness ==
    /\ lst.state = "paged" /\ lst.prefix = sASl /\ lst.lastMarker = Empty /\ lst.limit = 10
    /\ Keys(lst.last.objs) = <<sASl, sABSl>>
    /\ basePath \o sABC \in DOMAIN fs

\* the errors the remote answered the calls of one List with
ListErrs == {lst.hErr, lst.oErr, lst.rErr} \ {"none", "nil"}

\* C31: a List whose head lookup or whose enumeration (Open, Readdir) found
\* nothing returns no entry and no error; one whose head lookup or enumeration
\* failed otherwise returns that error and no entry
C31_ListNotFoundIsEmpty ==
    lst.state = "once" =>
        /\ Cardinality(ListErrs) <= 1
        /\ \A e \in ListErrs :
              /\ lst.last.objs = <<>>
              /\ lst.last.err = IF e = "notexist" THEN "nil" ELSE e

\* a List of "x/", which the store does not hold, has returned nothing and
\* no error
C31_Witness ==
    /\ lst.state = "once" /\ lst.prefix = sXSl /\ lst.marker = Empty
    /\ lst.hErr = "notexist" /\ lst.oErr = "none"
    /\ lst.last = [objs |-> <<>>, err |-> "nil"]

-----------------------------------------------------------------------------
(* Claims about ListAll *)

IsObj(e) == ~e.nil

\* the entries ListAll has delivered so far, received or still in the channel
Delivered == SelectSeq(la.got \o la.listed, IsObj)

DeliveredKeys == [i \in 1..Len(Delivered) |-> Delivered[i].obj.key]

\* C7: the entries ListAll delivers arrive in strictly ascending byte-wise
\* order of their full keys (a directory's with its trailing "/"), also when
\* a directory name is a prefix of a sibling's name.
C7_ListAllStrictlyAscending ==
    la.state \in {"walking", "closed", "panic"} => Ascending(DeliveredKeys)

\* a finished scan over directory "a" next to files "a." and "a0"
C7_Witness ==
    /\ la.state = "closed" /\ la.listed = <<>>
    /\ DeliveredKeys = <<sADot, sASl, sAB, sA0>>

\* the nodes below the base directory
NodesBelowBase == {q \in DOMAIN fs : HasPrefix(q, basePath) /\ Len(q) > Len(basePath)}

\* the key of the node at path q, a directory's with its trailing "/"
KeyOf(q) == SliceFrom(q, Len(basePath)) \o (IF fs[q].dir THEN <<SL>> ELSE Empty)

\* the keys of the objects and directories existing under the base path
AllKeys == {KeyOf(q) : q \in NodesBelowBase}

\* the remote has answered every call of this ListAll without a failure
CleanRun == la.f2 = "nil" /\ la.errPath = Empty /\ ~la.eofs

DeliveredKeySet == {DeliveredKeys[i] : i \in 1..Len(DeliveredKeys)}

\* C12: under every base path and for every tree, ListAll("", "") runs to
\* the close of its sequence, delivers no key that is not the key of a node
\* under the base path (none for the base directory, no empty key) and,
\* once closed, has delivered every such key; on the example store the
\* sequence is a/, a/b, a/c, d.
C12_ListAllExactKeys ==
    (la.state \in {"walking", "closed", "panic"} /\ la.prefix = Empty
        /\ la.marker = Empty /\ CleanRun) =>
        /\ la.state # "panic"
        /\ DeliveredKeySet \subseteq AllKeys
        /\ la.state = "closed" => DeliveredKeySet = AllKeys
        /\ (la.state = "closed" /\ \E bp \in Bases : fs = MkFs(bp, ExampleTree) /\ basePath = bp)
               => DeliveredKeys = <<sASl, sAB, sAC, sD>>

\* the keys that have the prefix and, with a marker, are greater than it
Qualifying(prefix, marker) ==
    {k \in AllKeys : HasPrefix(k, prefix) /\ (marker = Empty \/ StrLess(marker, k))}

\* C13: for every tree, prefix and marker, a ListAll the remote does not
\* fail delivers exactly the entries whose key, a directory's with its
\* trailing "/", has the prefix and is greater than a non-empty marker:
\* none missing, none twice, none that fails the filter.
C13_ListAllExactFilter ==
    (la.state \in {"walking", "closed", "panic"} /\ CleanRun) =>
        /\ la.state # "panic"
        /\ DeliveredKeySet \subseteq Qualifying(la.prefix, la.marker)
        /\ \A i, j \in 1..Len(DeliveredKeys) : i # j => DeliveredKeys[i] # DeliveredKeys[j]
        /\ la.state = "closed" => DeliveredKeySet = Qualifying(la.prefix, la.marker)

\* the error-tagged elements delivered so far
ErrorElems == Len(la.got \o la.listed) - Len(Delivered)

\* the node at which this ListAll met an error lies below its root
ErrorBelowRoot ==
    /\ la.errPath # Empty /\ RPath(la.errPath) # RPath(la.root)
    /\ la.f2 = "nil" /\ ~la.eofs

\* the keys ordered after the node that failed and outside its subtree
LaterKeys ==
    {KeyOf(q) : q \in {n \in NodesBelowBase :
                          /\ StrLess(KeyOf(RPath(la.errPath)), KeyOf(n))
                          /\ ~HasPrefix(n, RPath(la.errPath) \o <<SL>>)}}

\* C15: when opening a node below the root or reading its children fails
\* with an error other than end-of-data, ListAll delivers one error-tagged
\* element for the node and goes on: once the sequence is closed, every
\* qualifying entry of the later-ordered siblings and of their subtrees has
\* been delivered.
C15_ScanContinuesAfterError ==
    (la.state = "closed" /\ ErrorBelowRoot) =>
        /\ ErrorElems = 1
        /\ (LaterKeys \cap Qualifying(la.prefix, la.marker)) \subseteq DeliveredKeySet

\* C16: when the Stat that resolves the traversal root fails with an error
\* that is not not-found, ListAll returns that error to its caller, starts
\* no traversal and delivers no entry.
C16_RootErrorAborts ==
    (la.state \in {"walking", "closed", "panic"} /\ la.f2 = "other") =>
        /\ la.err = "other"
        /\ ~la.started
        /\ la.got \o la.listed = <<>>

\* C17: when the traversal root ListAll resolves does not exist, ListAll
\* returns no error and a sequence that is closed already and delivers no
\* element, and starts no producer.
C17_AbsentRootEmpty ==
    (la.state \in {"walking", "closed", "panic"} /\ la.f2 = "nil" /\ ~Exists(fs, la.root)) =>
        /\ la.state = "closed" /\ la.closed
        /\ la.err = "nil"
        /\ la.got \o la.listed = <<>>
        /\ ~la.started

\* ListAll("x/", "") has returned on a store that holds other keys but no x
C17_Witness ==
    /\ la.state = "closed" /\ la.prefix = sXSl /\ la.f2 = "nil"
    /\ ~Exists(fs, la.root) /\ ~la.started
    /\ Exists(fs, path(basePath, sAB))

\* an entry's key ends in "/" exactly when it is a directory entry, and a
\* directory entry has size 0
WellKeyed(o) == (HasSuffix(o.key, <<SL>>) <=> o.isDir) /\ (o.isDir => o.size = 0)

\* C18: every entry Head, List or ListAll returns has a key ending in "/"
\* if and only if it is a directory entry, the entry of the base directory
\* (empty key or prefix) and of a directory looked up without trailing "/"
\* included; directory entries have size 0.
C18_DirKeysEndInSlash ==
    /\ (ev.op = "Head" /\ ev.res = "nil") => WellKeyed(ev.obj)
    /\ lst.state = "paged" => \A i \in 1..Len(lst.last.objs) : WellKeyed(lst.last.objs[i])
    /\ la.state \in {"walking", "closed", "panic"} =>
           \A i \in 1..Len(Delivered) : WellKeyed(Delivered[i].obj)

\* C19: for every configured superuser and supergroup name, after a
\* successful Chown(k, owner, group) Head(k) reports owner "root" when the
\* owner passed was "root" and group "root" when the group passed was
\* "root": the translation to the remote identity and back is the identity
\* on "root".
C19_RootRoundTrip ==
    (ev.op = "Chown" /\ ev.res = "nil") =>
        LET h == HeadKey(fs, basePath, ev.key)
        IN  /\ h.err = "nil"
            /\ ev.owner = "root" => h.obj.owner = "root"
            /\ ev.group = "root" => h.obj.group = "root"

\* Chown(a/b, "root", "root") has succeeded under configured names
C19_Witness ==
    /\ ev.op = "Chown" /\ ev.res = "nil" /\ ev.key = sAB
    /\ ev.owner = "root" /\ ev.group = "root"
    /\ ident = [superuser |-> "admin", supergroup |-> "wheel"]
    /\ fs[path(basePath, sAB)].owner = "admin" /\ fs[path(basePath, sAB)].group = "wheel"

\* C20: with a consumer that keeps receiving, the sequence of a ListAll that
\* has started its traversal is eventually closed, whether the traversal
\* completes, prunes subtrees or meets an error; it is closed once, after
\* its last element: nothing is sent on it once it is closed.
C20_ListAllEventuallyClosed ==
    /\ la.started ~> la.closed
    /\ [][la.closed => (la'.closed /\ la'.got \o la'.listed = la.got \o la.listed)]_vars

\* the nodes inside the directory at path d
Inside(d) == {q \in DOMAIN fs : q # d /\ StartsWith(q, d \o <<SL>>)}

\* the key of a directory as the callback sees it: without the trailing "/"
BareKey(q) == SliceFrom(q, Len(basePath))

\* C28: the pruning of ListAll loses nothing: no node inside a directory
\* the traversal has skipped has a key that starts with the prefix and is
\* greater than the marker; and no directory whose key is a string prefix
\* of the prefix or of the marker is ever skipped.
C28_PruningLossless ==
    la.state \in {"walking", "closed"} =>
        \A d \in la.skipped :
            /\ fs[d].dir
            /\ \A q \in Inside(d) :
                   ~(/\ StartsWith(KeyOf(q), la.prefix)
                     /\ (la.marker = Empty \/ StrLess(la.marker, KeyOf(q))))
            /\ ~StartsWith(la.prefix, BareKey(d))
            /\ ~StartsWith(la.marker, BareKey(d))

\* ListAll("a/", "a0") has entered a/, which fails the marker test, and
\* skipped the directory a/b, which holds a/b/c
C28_Witness ==
    /\ la.state = "closed" /\ la.prefix = sASl /\ la.marker = sA0
    /\ la.skipped = {basePath \o sAB}
    /\ basePath \o sABC \in DOMAIN fs
    /\ CleanRun

\* s is a leading part of t
IsLeading(s, t) == Len(s) <= Len(t) /\ SubSeq(t, 1, Len(s)) = s

\* everything sent so far, in the order of the sends
Produced == la.got \o la.listed

\* C32: the channel never holds more than its capacity; while it is full no
\* send goes through and no step sends; once the consumer has taken an element
\* of a full channel the next send goes through; what the consumer has
\* received is a leading part of what has been sent, in the order of the sends
C32_BoundedFifoChannel ==
    [][/\ Len(la.listed) <= ChanCap /\ Len(la'.listed) <= ChanCap
       /\ Len(la.listed) = ChanCap => (~HasRoom(1) /\ Produced' = Produced)
       /\ (Len(la.listed) = ChanCap /\ la.got' # la.got) => HasRoom(1)'
       /\ IsLeading(Produced, Produced')
       /\ IsLeading(la.got, la.got') /\ IsLeading(la.got', Produced)]_vars

\* the channel is full, the goroutine waits with the entry of an object to
\* send, and the consumer has received before
C32_Witness ==
    /\ la.state = "walking" /\ Len(la.listed) = ChanCap /\ la.got # <<>>
    /\ la.todo # <<>> /\ la.todo[1].phase = "visit"
    /\ ~ENABLED WalkVisit("nil") /\ ENABLED Recv

\* C39: a scan of ListAll sends at most one nil element, and a nil element
\* is the last thing it sends: once it is sent the traversal has nothing left
\* to visit, and the next step of the goroutine is the close
C39_NilSentinelLast ==
    \A i \in 1..Len(Produced) :
        Produced[i].nil =>
            /\ i = Len(Produced)
            /\ la.todo = <<>>
            /\ la.state \in {"walking", "closed"}

\* a scan has sent the entry a/, then the nil element for a failure inside
\* a, and is closed; d, which the store holds, was not sent
C39_Witness ==
    /\ la.state = "closed" /\ la.prefix = Empty /\ la.marker = Empty
    /\ Len(Produced) >= 2 /\ Produced[Len(Produced)].nil
    /\ Produced[Len(Produced) - 1].obj.key = sASl
    /\ la.errPath = path(basePath, sA)
    /\ basePath \o sD \in DOMAIN fs


RECURSIVE RestSends(_)
\* what a traversal the remote answers without fault still sends from the
\* frames todo on, in order
RestSends(todo) ==
    IF todo = <<>> THEN <<>>
    ELSE LET pth  == todo[1].path
             rest == Tail(todo)
         IN  IF todo[1].phase = "visit"
             THEN LET file == Open(fs, pth)
                      info == IF file.err = "nil" THEN file.info ELSE NilInfo
                      r    == walkFn(pth, info, file.err, la.prefix, la.marker,
                                     la.root, basePath)
                  IN  IF r.ret = "panic" THEN <<>>
                      ELSE IF r.ret = "err" THEN r.send
                      ELSE IF r.ret = "skipdir" THEN RestSends(rest)
                      ELSE IF file.err # "nil" \/ ~info.isDir
                      THEN r.send \o RestSends(rest)
                      ELSE r.send \o RestSends(<<Frame(pth, "readdir")>> \o rest)
             ELSE LET rd == Readdir(fs, pth)
                      r  == walkFn(pth, NilInfo, rd.err, la.prefix, la.marker,
                                   la.root, basePath)
                  IN  IF rd.err = "nil" THEN RestSends(ChildFrames(pth, rd.infos) \o rest)
                      ELSE IF r.ret = "err" THEN r.send
                      ELSE RestSends(rest)

\* the consumer has stopped while the traversal has more left to send than
\* the channel has room for
Abandoned ==
    /\ la.state = "walking" /\ la.stopped
    /\ Len(la.listed) + Len(RestSends(la.todo)) > ChanCap

\* the goroutine is at a send the full channel does not take
BlockedOnSend ==
    /\ la.state = "walking" /\ Len(la.listed) = ChanCap
    /\ la.todo # <<>> /\ RestSends(<<la.todo[1]>>) # <<>>

\* C33: once the consumer has stopped receiving while the traversal has more
\* left to send than the channel has room for, the channel is never closed
\* and the goroutine, however long it is run, ends up at a send it stays
\* blocked on for ever
C33_AbandonedScanNeverCloses ==
    [](Abandoned => ([]~la.closed /\ <>[]BlockedOnSend))

\* the consumer has stopped after its first element and the goroutine stands
\* at the send of a/b/c with the channel full
C33_Witness ==
    /\ Abandoned /\ BlockedOnSend /\ Len(la.got) = 1
    /\ ~ENABLED WalkVisit("nil") /\ ~ENABLED Recv

-----------------------------------------------------------------------------
(* Listings while a Put is in flight *)

\* the keys the last List has returned and the running ListAll has sent
EnumeratedKeys ==
    (IF lst.state = "once" THEN {lst.last.objs[i].key : i \in 1..Len(lst.last.objs)}
     ELSE {})
        \cup {DeliveredKeys[i] : i \in 1..Len(DeliveredKeys)}

\* the keys of the temp siblings a Put on sK may write to
TempKeys == {SliceFrom(TmpName(path(basePath, sK), n), Len(basePath)) : n \in TmpIds}

\* C37: whatever Puts are in flight, List and ListAll enumerate only keys of
\* objects and directories that completed operations created: the
\* directories on the way to sK and sK itself, never the temp sibling a Put
\* on sK is writing to
C37_TempSiblingNeverEnumerated ==
    /\ EnumeratedKeys \subseteq {Empty, sKDir, sK}
    /\ EnumeratedKeys \cap TempKeys = {}

-----------------------------------------------------------------------------
(* Modes of the entries *)

\* the mode the remote holds for the node an entry of key k was built from
RemoteMode(k) == FileInfo(Empty, fs[RPath(path(basePath, k))]).mode

\* the entries the last Head and the last List have returned
Entries ==
    (IF ev.op = "Head" /\ ev.res = "nil" THEN {ev.obj} ELSE {})
        \cup (IF lst.state = "once" THEN {lst.last.objs[i] : i \in 1..Len(lst.last.objs)}
              ELSE {})

\* C35: the mode of an entry never has the remote's sticky bit, 01000; it has
\* os.ModeSticky exactly when the remote's mode has 01000; every other bit is
\* as in the remote's mode
C35_StickyBitTranslated ==
    \A e \in Entries :
        /\ HdfsStickyBit \notin e.mode
        /\ ModeStickyBit \in e.mode <=> HdfsStickyBit \in RemoteMode(e.key)
        /\ e.mode \ {HdfsStickyBit, ModeStickyBit}
               = RemoteMode(e.key) \ {HdfsStickyBit, ModeStickyBit}

\* List has returned a sticky directory a/ and Head the file d without the
\* bit
C35_Witness ==
    /\ lst.state = "once" /\ \E i \in 1..Len(lst.last.objs) :
          /\ lst.last.objs[i].key = sASl
          /\ ModeStickyBit \in lst.last.objs[i].mode
          /\ ModeDirBit \in lst.last.objs[i].mode
    /\ ev.op = "Head" /\ ev.res = "nil" /\ ev.key = sD
    /\ ModeStickyBit \notin ev.obj.mode /\ ev.obj.mode = fs[basePath \o sD].perm

-----------------------------------------------------------------------------
(* Get over ranges *)

\* the bytes of data from offset off on, at most limit of them if limit > 0
FromOffset(data, off, limit) ==
    SubSeq(data, off + 1, IF limit > 0 THEN Min(off + limit, Len(data)) ELSE Len(data))

\* C34: the stream Get(key, off, limit) returns for a file holds the file's
\* bytes from offset off on: up to off + limit, or the file's end, when
\* limit > 0, up to the file's end when limit <= 0; for a directory it holds
\* nothing (checked once the caller has read the stream to its end)
C34_GetFromOffset ==
    (get.pc = "done" /\ get.res = "eof") =>
        LET node == fs[RPath(path(basePath, get.key))]
        IN  get.buf = IF node.dir THEN <<>>
                      ELSE FromOffset(node.data, get.off, get.limit)

-----------------------------------------------------------------------------
(* List against the keys of the nodes of the store *)

\* the keys of the nodes directly in the parent directory of the prefix
\* that start with the prefix
ChildrenWithPrefix(prefix) ==
    {k \in {KeyOf(q) : q \in Children(fs, Dir(basePath \o prefix))} : StartsWith(k, prefix)}

\* C30: for a prefix that does not end in "/", under every base path, the
\* root base path "/" with a prefix holding no "/" included,
\* List(prefix, "", "/", n) returns the direct children of the parent
\* directory of the prefix whose key starts with the prefix: all of them
\* when they are fewer than n, else n of them.
C30_ListParentOfPrefix ==
    (/\ lst.state = "paged" /\ lst.calls = 1 /\ lst.marker = Empty
     /\ lst.prefix # Empty /\ ~HasSuffix(lst.prefix, <<SL>>))
    => LET keys == {lst.last.objs[i].key : i \in 1..Len(lst.last.objs)}
           E    == ChildrenWithPrefix(lst.prefix)
       IN  /\ keys \subseteq E
           /\ Len(lst.last.objs) = Min(lst.limit, Cardinality(E))

-----------------------------------------------------------------------------
(* Claims about Put, Get and Delete                                        *)

\* what a Get of the range <<off, limit>> delivers of a complete object
View(obj, off, limit) ==
    IF obj.dir THEN <<>>
    ELSE IF limit > 0 THEN Section(obj.data, off, limit)
    ELSE obj.data

\* C1: a Get(k) that runs while Puts on k are in flight, their temp names
\* distinct, and that reads to the end of its stream delivers the bytes of
\* one complete object: the one committed at k when Get opened it, which is
\* the object the store held before the Puts or the whole b of a Put whose
\* rename is done; never a strict prefix of b, never a mixture.  It reports
\* not-found only when no object was committed at k then.
C1_GetNeverPartial ==
    (get.pc = "done" /\ ~hist.collided) =>
        /\ get.res = "eof" =>
               /\ get.want.exists
               /\ get.buf = View(get.want, get.off, get.limit)
        /\ get.res = "notexist" => ~get.want.exists

\* a whole-object Get has delivered put 1's b while put 2 is copying
C1_Witness ==
    /\ get.pc = "done" /\ get.res = "eof" /\ get.limit = 0 /\ get.buf = <<1>>
    /\ put[1].key = sK /\ put[1].in = <<1>> /\ put[1].pc = "done"
    /\ put[2].key = sK /\ put[2].in = <<2, 2>> /\ put[2].pc = "copy" /\ put[2].off = 1
    /\ ~hist.collided

\* the Puts on key sK that have returned
Returned(p) == put[p].pc = "done" /\ put[p].key = sK

Alone(p) == ~put[p].overlap /\ \A q \in Putters \ {p} : put[q].pc = "idle"

\* C3: after a Put(k, b) on a non-directory key has returned success, no
\* other operation running on k, the object at k is exactly b whatever k
\* held before: Get(k) returns b, Head(k) a non-directory entry of size |b|.
C3_PutReplacesObject ==
    \A p \in Putters :
        (Returned(p) /\ put[p].err = "nil" /\ Alone(p)) =>
            /\ GetStream(fs, basePath, sK, 0, 0) = [err |-> "nil", stream |-> put[p].in]
            /\ LET h == HeadKey(fs, basePath, sK)
               IN  h.err = "nil" /\ h.obj.size = Len(put[p].in) /\ ~h.obj.isDir

\* a Put of two bytes has replaced an object of three
C3_Witness ==
    /\ Returned(1) /\ put[1].err = "nil" /\ Alone(1)
    /\ put[1].in = <<2, 2>> /\ put[1].before = Object(<<3, 3, 3>>)

\* C4: when a Put(k, b) on a non-directory key returns an error, whatever
\* the step that failed, no other operation running on k, the object at k
\* is the one k held before the call, or k is still absent.
C4_FailedPutLeavesObject ==
    \A p \in Putters :
        (Returned(p) /\ put[p].err # "nil" /\ Alone(p)) =>
            Snapshot(fs, path(basePath, sK)) = put[p].before

\* a Put over an object has failed at its rename
C4_Witness ==
    /\ Returned(1) /\ put[1].err # "nil" /\ put[1].errAt = "rename" /\ Alone(1)
    /\ put[1].before = Object(<<3>>)

\* C27: when the Puts on one key have all returned success, the object at
\* the key is the content of the Put whose Rename ran last (hist.cur is set
\* by each successful Rename), whatever the order in which the Puts
\* started, created their temp files and streamed.
C27_LastRenameWins ==
    (/\ Returned(1) /\ Returned(2)
     /\ put[1].err = "nil" /\ put[2].err = "nil")
    => /\ Snapshot(fs, path(basePath, sK)) = hist.cur
       /\ hist.cur \in {Object(put[1].in), Object(put[2].in)}

\* two overlapping Puts over an object have returned success and the key
\* holds the two bytes of put 1
C27_Witness ==
    /\ Returned(1) /\ Returned(2) /\ put[1].err = "nil" /\ put[2].err = "nil"
    /\ put[1].overlap /\ put[2].overlap
    /\ put[1].in = <<2, 2>> /\ put[2].in = <<1>>
    /\ put[2].before = Object(<<3, 3, 3>>)
    /\ hist.cur = Object(<<2, 2>>) /\ Snapshot(fs, path(basePath, sK)) = Object(<<2, 2>>)

\* the contents an object at key sK may hold as a whole: what a store starts
\* with there and what the Puts on sK were given
WholeContents ==
    {f[<<SL>> \o sK].data : f \in {g \in StoreInits : <<SL>> \o sK \in DOMAIN g}}
        \cup {put[p].in : p \in {q \in Putters : put[q].key = sK}}

\* C36: when concurrent Puts on one key have drawn the same temp name, the
\* key still never shows a partial object: a file at the key is closed and
\* holds the whole content the store started with or the whole b of one of
\* the Puts
C36_SameTempNameNeverPartial ==
    LET k == path(basePath, sK)
    IN  (hist.collided /\ Exists(fs, k) /\ ~fs[RPath(k)].dir) =>
            /\ fs[RPath(k)].writer = 0
            /\ fs[RPath(k)].data \in WholeContents


\* C5: a Delete(k) the remote does not fail for an outside reason returns
\* success and leaves the store as it was when k does not exist, and
\* returns success when it follows a successful Delete(k); after any
\* successful Delete(k), Head(k) reports not-found.
C5_DeleteIdempotent ==
    ev.op = "Delete" =>
        /\ (ev.fault = "nil" /\ ~ev.existed) => (ev.res = "nil" /\ ~ev.changed)
        /\ (ev.fault = "nil" /\ ev.afterOk) => ev.res = "nil"
        /\ ev.res = "nil" => HeadKey(fs, basePath, ev.key).err = "notexist"

\* the second of two Deletes of a key, the first of which removed it
C5_Witness ==
    /\ ev.op = "Delete" /\ ev.fault = "nil" /\ ev.afterRemoval
    /\ ~ev.existed /\ ev.res = "nil" /\ ~ev.changed

-----------------------------------------------------------------------------
(* Claims about the steps of one Put *)

\* the number of calls named c in a sequence of calls
RECURSIVE Count(_, _)
Count(calls, c) ==
    IF calls = <<>> THEN 0
    ELSE (IF Head(calls) = c THEN 1 ELSE 0) + Count(Tail(calls), c)

\* every directory above the path is there
AncestorsExist(f, p) == \A q \in Ancestors(Dir(RPath(p))) : q \in DOMAIN f /\ f[q].dir

\* the Put that is followed, and its path
Solo1 == put[1]
SoloPath == path(basePath, put[1].key)

\* C21: when the first CreateFile of a Put fails because the parent
\* directory is missing, Put calls MkdirAll for the ancestors of the key
\* and then CreateFile once more; when that retry succeeds Put goes on to
\* stream; and such a Put, no remote call failing for an outside reason,
\* returns success with the object and every ancestor directory in place.
C21_MissingParentRetry ==
    LET c == ev.calls
    IN  (Solo1.key = sK /\ Len(c) >= 2 /\ c[2] = "MkdirAll") =>
            /\ c[1] = "CreateFile"
            /\ Count(c, "MkdirAll") = 1
            /\ Len(c) >= 3 => c[3] = "CreateFile"
            /\ (Len(c) = 2 /\ ~Solo1.faulted) => AncestorsExist(fs, SoloPath)
            /\ (Len(c) = 3 /\ OpenFileOf(fs, 1) # {}) => Solo1.pc = "copy"
            /\ (Solo1.pc = "done" /\ ~Solo1.faulted) =>
                   /\ Solo1.err = "nil"
                   /\ Snapshot(fs, SoloPath) = Object(Solo1.in)
                   /\ AncestorsExist(fs, SoloPath)

\* a Put under a nested base path, neither the base directory nor the key's
\* directory there before, has returned success
C21_Witness ==
    /\ Solo1.pc = "done" /\ Solo1.key = sK /\ Solo1.err = "nil" /\ ~Solo1.faulted
    /\ basePath = NestedBase /\ hist.puts = 1
    /\ SubSeq(ev.calls, 1, 3) = <<"CreateFile", "MkdirAll", "CreateFile">>
    /\ Snapshot(fs, SoloPath) = Object(<<2, 2>>)

RECURSIVE CopyCalls(_)
\* the calls of io.CopyBuffer on an input of n chunks that nothing fails
CopyCalls(n) == IF n = 0 THEN <<"Read">> ELSE <<"Read", "Write">> \o CopyCalls(n - 1)

\* what a Put does once its temp file is created, nothing failing: stream,
\* close, rename, and the deferred Remove
NormalTail(in) == CopyCalls(Len(in)) \o <<"Close", "Rename", "Remove">>

\* the first CreateFile that found the temp path taken, 0 if none did
FirstTaken ==
    LET I == {i \in 1..Len(ev.calls) :
                 ev.calls[i] = "CreateFile" /\ ev.errs[i] \in {"exist", "abc"}}
    IN  IF I = {} THEN 0 ELSE CHOOSE i \in I : \A j \in I : i <= j

\* C22: when CreateFile fails because the temp path exists, or with
\* AlreadyBeingCreatedException, Put removes the file at the temp path and
\* calls CreateFile once more; when that retry succeeds Put streams, closes
\* and renames as a Put whose first CreateFile succeeded does.
C22_StaleTempRetry ==
    LET c == ev.calls
        e == ev.errs
        i == FirstTaken
    IN  (Solo1.key = sK /\ i > 0) =>
            /\ Len(c) > i => c[i + 1] = "Remove"
            /\ (Len(c) = i + 1 /\ e[i + 1] = "nil" /\ Solo1.pc # "done") =>
                   (Solo1.pc = "create3" /\ ~Exists(fs, ev.tmp))
            /\ (Len(c) > i + 1 /\ Solo1.pc # "done") => c[i + 2] = "CreateFile"
            /\ \A j \in (i + 3)..Len(c) : c[j] # "CreateFile"
            /\ (Len(c) = i + 2 /\ e[i + 2] = "nil") => Solo1.pc = "copy"
            /\ (Solo1.pc = "done" /\ ~Solo1.faulted) =>
                   /\ SubSeq(c, i + 1, Len(c)) = <<"Remove", "CreateFile">> \o NormalTail(Solo1.in)
                   /\ Solo1.err = e[Len(c) - 1]
                   /\ Solo1.err = "nil" => Snapshot(fs, SoloPath) = Object(Solo1.in)

\* a Put whose temp path was held by a writer that is gone has returned
\* success
C22_Witness ==
    /\ Solo1.pc = "done" /\ Solo1.key = sK /\ Solo1.err = "nil" /\ ~Solo1.faulted
    /\ Len(ev.errs) > 0 /\ ev.errs[1] = "abc"
    /\ ev.calls = <<"CreateFile", "Remove", "CreateFile">> \o NormalTail(<<2, 2>>)
    /\ Snapshot(fs, SoloPath) = Object(<<2, 2>>)

\* the last CreateFile among the calls made, 0 if there is none
LastCreate ==
    LET I == {i \in 1..Len(ev.calls) : ev.calls[i] = "CreateFile"}
    IN  IF I = {} THEN 0 ELSE CHOOSE i \in I : \A j \in I : j <= i

\* the calls that stream, close and rename
StreamCalls == {"Read", "Write", "Close", "Rename"}

\* C23: a Put makes at most three CreateFile attempts: the first, at most
\* one after MkdirAll, at most one after removing a stale temp file.  When
\* the first attempt fails with another error, or the last attempt made
\* fails, Put returns that error and neither streams, closes nor renames.
C23_BoundedCreateAttempts ==
    LET c == ev.calls
        e == ev.errs
        k == LastCreate
    IN  Solo1.key = sK =>
            /\ Count(c, "CreateFile") <= 3
            /\ Count(c, "MkdirAll") <= 1
            /\ Cardinality({i \in 1..(Len(c) - 1) :
                               c[i] = "Remove" /\ c[i + 1] = "CreateFile"}) <= 1
            /\ (Len(c) >= 1 /\ e[1] \notin {"nil", "notexist", "exist", "abc"}) =>
                   /\ Solo1.pc \in {"defer", "done"}
                   /\ Count(c, "CreateFile") = 1
                   /\ Solo1.err = e[1]
            /\ (k > 0 /\ e[k] # "nil" /\ Solo1.pc \in {"defer", "done"}) =>
                   /\ Solo1.err = e[k] /\ Solo1.errAt = "create"
                   /\ \A j \in 1..Len(c) : c[j] \notin StreamCalls
                   /\ \A j \in (k + 1)..Len(c) : c[j] = "Remove"
                   /\ Len(c) <= k + 1
                   /\ Snapshot(fs, SoloPath) = Solo1.before
            /\ (k > 0 /\ e[k] # "nil" /\ Solo1.pc \notin {"defer", "done"}) =>
                   Solo1.pc \in {"mkdir", "create2", "remove", "create3"}

\* a Put has returned the error of its third CreateFile: the parent was
\* missing at the first, the temp path taken at the second and the third
C23_Witness ==
    /\ Solo1.pc = "done" /\ Solo1.key = sK /\ Solo1.err = "exist"
    /\ ev.calls = <<"CreateFile", "MkdirAll", "CreateFile", "Remove", "CreateFile", "Remove">>
    /\ ev.errs[1] = "notexist" /\ ev.errs[3] = "exist" /\ ev.errs[5] = "exist"

\* the f.Close() that follows a complete copy, 0 if it is not made yet
ClosedAt ==
    LET I == {j \in 2..Len(ev.calls) :
                 ev.calls[j] = "Close" /\ ev.calls[j - 1] = "Read" /\ ev.errs[j - 1] = "eof"}
    IN  IF I = {} THEN 0 ELSE CHOOSE j \in I : TRUE

\* C24: when f.Close() fails with hdfs.ErrReplicating, Put still renames the
\* temp file onto the key and returns what Rename returned; when it fails
\* with another error, Put returns that error and does not rename.
C24_ReplicatingCloseTolerated ==
    LET c == ev.calls
        e == ev.errs
        j == ClosedAt
    IN  (Solo1.key = sK /\ j > 0) =>
            /\ e[j] = "replicating" =>
                   /\ Len(c) = j => Solo1.pc = "rename"
                   /\ Len(c) > j => c[j + 1] = "Rename"
                   /\ Solo1.pc \in {"defer", "done"} => Solo1.err = e[j + 1]
                   /\ (Solo1.pc = "done" /\ Solo1.err = "nil") =>
                          Snapshot(fs, SoloPath) = Object(Solo1.in)
            /\ e[j] \notin {"nil", "replicating"} =>
                   /\ Solo1.pc \in {"defer", "done"}
                   /\ Solo1.err = e[j] /\ Solo1.errAt = "close"
                   /\ Count(c, "Rename") = 0
                   /\ Snapshot(fs, SoloPath) = Solo1.before

\* a Put over an object has returned success, its close answered with
\* replication in progress
C24_Witness ==
    /\ Solo1.pc = "done" /\ Solo1.key = sK /\ Solo1.err = "nil"
    /\ ClosedAt > 0 /\ ev.errs[ClosedAt] = "replicating"
    /\ ev.calls[Len(ev.calls) - 1] = "Rename"
    /\ Solo1.before = Object(<<3>>) /\ Snapshot(fs, SoloPath) = Object(<<2, 2>>)

\* C25: whenever a Put on a non-directory key has returned, whether
\* creation, streaming, close or rename failed or the Put succeeded, its last
\* call was Remove(tmp) and, unless that Remove failed, no file is at its
\* temp path; after a successful rename the Remove finds nothing to remove
\* and the object is at the key.
C25_TempRemovedOnEveryExit ==
    LET c == ev.calls
        e == ev.errs
        n == Len(ev.calls)
    IN  (Solo1.pc = "done" /\ Solo1.key = sK) =>
            /\ n >= 2 /\ c[n] = "Remove"
            /\ e[n] \in {"nil", "notexist"} => ~Exists(fs, ev.tmp)
            /\ (c[n - 1] = "Rename" /\ e[n - 1] = "nil") =>
                   /\ e[n] # "nil"
                   /\ Snapshot(fs, SoloPath) = Object(Solo1.in)

\* a Put whose streaming failed after a chunk was written has returned and
\* its temp file is gone
C25_Witness ==
    /\ Solo1.pc = "done" /\ Solo1.key = sK /\ Solo1.errAt = "copy"
    /\ Count(ev.calls, "Write") >= 1
    /\ ev.errs[Len(ev.errs)] = "nil" /\ ~Exists(fs, ev.tmp)

\* C26: a Put on a key whose path ends in "/" makes one call, MkdirAll: it
\* creates no temp file, reads nothing and renames nothing; when it succeeds
\* the directory and its ancestors exist and nothing else has changed; and
\* when it repeats a Put that succeeded it succeeds again, nothing failing
\* for an outside reason, and leaves the store as it was.
C26_DirectoryPutIdempotent ==
    [][(Solo1.pc = "idle" /\ put'[1].pc = "done" /\ put'[1].key = sKDir) =>
           LET pth == path(basePath, sKDir)
           IN  /\ ev'.calls = <<"MkdirAll">> /\ ev'.tmp = Empty
               /\ \A q \in DOMAIN fs : q \in DOMAIN fs' /\ fs'[q] = fs[q]
               /\ \A q \in DOMAIN fs' \ DOMAIN fs : fs'[q].dir /\ q \in Ancestors(RPath(pth))
               /\ put'[1].err = "nil" =>
                      (IsDirAt(fs', pth) /\ AncestorsExist(fs', pth))
               /\ (hist.prev.key = sKDir /\ hist.prev.err = "nil" /\ ~put'[1].faulted) =>
                      (put'[1].err = "nil" /\ fs' = fs)]_vars

\* Put("d/") has succeeded a second time, under a nested base path
C26_Witness ==
    /\ Solo1.pc = "done" /\ Solo1.key = sKDir /\ Solo1.err = "nil" /\ ~Solo1.faulted
    /\ hist.puts = 2 /\ hist.prev = [key |-> sKDir, err |-> "nil", faulted |-> FALSE]
    /\ basePath = NestedBase /\ hist.cur = Absent
    /\ DOMAIN fs = {<<SL>>, <<SL, 114>>, <<SL, 114, SL, 100>>}

-----------------------------------------------------------------------------
(* The handle table of libjfs *)

\* C40: whatever the interleaving of the calls of jfs_close on one handle
\* and of jfs_term on its file system, Close is called at most once on the
\* file of a handle; and the handle nextFileHandle has just returned is the
\* handle of the file it was given and of no other open file
C40_FileClosedOnce ==
    /\ \A f \in DOMAIN closes : closes[f] <= 1
    /\ \A t \in Threads :
          (callers[t].pc = "idle" /\ callers[t].ret \in DOMAIN openFiles) =>
              openFiles[callers[t].ret].file = callers[t].f

=============================================================================
